---- MODULE Spec2Model ----
(***************************************************************************)
(* Verification model of the queue-notifier dispatch pipeline:             *)
(*   - batchSender.process        (src/src/core/BatchSender.ts)            *)
(*   - WorkerManager.jobProcessor (src/src/core/WorkerManager.ts)          *)
(*   - trackNotificationResponse  (src/src/utils/ResponseTrackers.ts)      *)
(* Each component has its own specification over the shared variables.     *)
(***************************************************************************)
EXTENDS Integers, Sequences, FiniteSets, TLC

VARIABLES
    \* ---- batchSender.process ----
    recipients,     \* the recipients[] argument
    meta,           \* the meta[] argument
    concurrencyOpt, \* options?.concurrency: {} when absent, {n} when given
    i,              \* loop variable of the for loop (0-based)
    bpc,            \* position of process(): loop, awaitBatch, awaitFinal, finalize, done
    results,        \* the results[] array (NoResult = hole)
    tasks,          \* the tasks[] array: indices of the promises pushed
    taskState,      \* per index: none | pending | fulfilled | rejected
    sendLog,        \* per index: what sendSingle did when the task ran
    outOfOrder,     \* some task settled while an earlier one was still pending
    successCount,
    failureCount,
    skippedCount,
    finalResults,   \* the value process() resolves with
    \* ---- WorkerManager / store ----
    cfg,            \* worker configuration
    cancelFlags,    \* store: campaign id -> value at worker:cancel:campaign:<id>
    statsStore,     \* store: tracking key -> hash (counter name -> count)
    registry,       \* NotifierRegistry: set of registered channel names
    jobs,           \* job id -> job record (payload, position, observations)
    \* ---- trackNotificationResponse in isolation ----
    trResponse,     \* the response argument
    trKey,          \* the trackingKey argument
    trBefore,       \* the hash of trKey when the call was made
    trPc,           \* ready | done
    \* ---- dispatchNotifications / processInBatches ----
    dbTotal,        \* number of records the database holds
    batchSizeOpt,   \* options.batchSize: {} when absent, {n} when given
    enqueueRetriesOpt, \* options.enqueueRetries: {} when absent, {n} when given
    offset,         \* let offset
    ppc,            \* position: fetch | awaitSet | final | done
    fetchLog,       \* processBatch calls: offset, limit, records returned, retry result
    handlerLog,     \* handler invocations: the page handed over
    activeBatches,  \* the activeBatches array: batch numbers
    handlers,       \* per batch number: state of the handler promise and its enqueue
    queue,          \* jobs persisted in the queue, in order
    dispatchResult, \* pending | resolved | the error dispatch rejected with
    \* ---- retryWithBackoff in isolation ----
    rtInput,        \* failures of the operation, maxRetries, baseDelay
    rtResult,       \* what the call did
    rtPc,           \* ready | done
    \* ---- TokenBucketRateLimiter ----
    tbRate,         \* maxRatePerSecond
    tbTokens,       \* this.tokens, in thousandths of a token
    tbLast,         \* this.lastRefillTimestamp (ms)
    mono,           \* elapsed real time (ms), which the timers follow
    wallBack,       \* by how much the wall clock has been set back (ms)
    tbPending,      \* acquire() calls suspended in the wait loop
    tbAcquired,     \* real time at which each acquire() call returned
    \* ---- RateLimiter (Bottleneck) of one adapter instance ----
    lmCfg,          \* maxRequests and perMilliseconds given to the constructor
    lmTasks,        \* tasks handed to schedule(): job, limiter, state, start time
    \* ---- WorkerManager start and close() ----
    clInput,        \* how the worker is started and what redisConnection is
    clPc,           \* position: new | running | closingWorker | closingQueue | done
    redisInstance,  \* the store handle: who created it, its status
    ownsRedisConnection, \* this.ownsRedisConnection
    clActive,       \* jobs the worker has claimed and not finished
    closeLog,       \* what close() has done, in order
    \* ---- WorkerManager "drained" handler ----
    drOnDrained,    \* whether config.onDrained is set
    drains,         \* one record per "drained" event: the handler run it
                    \* started (seen: the counts that ended the polling)
    \* ---- the Node process ----
    unhandled,      \* an event listener's promise rejected (unhandled rejection)
    \* ---- NotifierRegistry ----
    nrEntries,      \* the static Map, as its entries in insertion order
    nrLog,          \* the register / unregister / clear calls made, in order
    nrLast,         \* the last call and how it ended
    \* ---- getNotificationStats / resetNotificationStats on one key ----
    stKey,          \* the trackingKey argument
    stCalls,        \* the calls made, in order, with what each found and gave
    \* ---- the batch handler of dispatchNotifications on one page ----
    plRecords,      \* the records handed to the handler
    plThrows,       \* the records for which options.meta throws
    plPayload,      \* jobPayload, once built
    plPc,           \* ready | enqueue | done | rejected
    plQueue,        \* jobs persisted by queue.add
    \* ---- FirebaseNotifier and the firebase-admin SDK of the process ----
    fbInitialized,  \* FirebaseNotifier.initialized (static)
    fbApps,         \* admin.apps.length
    fbLog,          \* the constructions made, in order, with what each did
    \* ---- the processBatch closure of dispatchNotifications ----
    qLimited,       \* whether options.maxQueriesPerSecond is set (truthy)
    qCalls,         \* rateLimiter.acquire() and options.dbQuery() calls, in order
    qPages,         \* processBatch calls made
    qPc             \* fetch | done

batchVars == <<recipients, meta, concurrencyOpt, i, bpc, results, tasks,
               taskState, sendLog, outOfOrder, successCount, failureCount,
               skippedCount, finalResults>>
workerVars == <<cfg, cancelFlags, statsStore, registry, jobs>>
trackerVars == <<trResponse, trKey, trBefore, trPc>>
producerVars == <<dbTotal, batchSizeOpt, enqueueRetriesOpt, offset, ppc,
                  fetchLog, handlerLog, activeBatches, handlers, queue,
                  dispatchResult>>
retryVars == <<rtInput, rtResult, rtPc>>
bucketVars == <<tbRate, tbTokens, tbLast, mono, wallBack, tbPending, tbAcquired>>
limiterVars == <<lmCfg, lmTasks>>
closeVars == <<clInput, clPc, redisInstance, ownsRedisConnection, clActive,
               closeLog>>
drainVars == <<drOnDrained, drains>>
registryVars == <<nrEntries, nrLog, nrLast>>
statsVars == <<stKey, stCalls>>
payloadVars == <<plRecords, plThrows, plPayload, plPc, plQueue>>
firebaseVars == <<fbInitialized, fbApps, fbLog>>
queryVars == <<qLimited, qCalls, qPages, qPc>>
extraVars == <<payloadVars, firebaseVars, queryVars>>
tailVars == <<registryVars, statsVars, extraVars>>
\* Everything but extraVars
coreVars == <<batchVars, workerVars, trackerVars, producerVars, retryVars,
              bucketVars, limiterVars, closeVars, drainVars, unhandled,
              registryVars, statsVars>>
laterVars == <<limiterVars, closeVars, drainVars, unhandled, tailVars>>
otherVars == <<producerVars, retryVars, bucketVars, laterVars>>
vars == <<batchVars, workerVars, trackerVars, otherVars>>

\* ------------------------------------------------------------------------
\* Bounds of the model
\* ------------------------------------------------------------------------
MaxLen == 3          \* longest recipients[] / response[] explored
MaxConcurrency == 2  \* largest explicit options.concurrency explored
MaxRecords == 3      \* most records the database holds
MaxRetries == 2      \* largest explicit maxRetries / enqueueRetries explored
MaxFailures == 3     \* most failures of an operation that then succeeds
TickMs == 100        \* granularity of the clock (ms)
MaxTicks == 5        \* clock ticks explored
MaxAcquires == 7     \* acquire() calls explored
MaxPending == 2      \* acquire() calls waiting at the same time
MaxTasks == 4        \* tasks handed to one adapter's limiter
MaxSignals == 2      \* "drained" events explored
MaxCalls == 4        \* register / unregister / clear calls explored

\* ------------------------------------------------------------------------
\* JavaScript values
\* ------------------------------------------------------------------------
None == "<absent>"   \* undefined / missing field

\* A recipient value: a string, undefined, or (untyped caller) a number.
Rcpt(kind, val) == [kind |-> kind, val |-> val]

\* Variant that also rejects every value that is not a string.
IsFalsyOrNotString(r) == r.kind # "string" \/ r.val = ""

\* !recipient
IsFalsy(r) ==
    \/ r.kind = "undefined"
    \/ r.kind = "string" /\ r.val = ""
    \/ r.kind = "number" /\ r.val = "0"

\* String(recipient)
Str(r) == IF r.kind = "undefined" THEN "undefined" ELSE r.val

\* NotificationResult
Result(status, recipient, error, response) ==
    [status |-> status, recipient |-> recipient, error |-> error,
     response |-> response]

NoResult == Result(None, None, None, None)   \* a hole of results[]

\* ------------------------------------------------------------------------
\* batchSender.process
\* ------------------------------------------------------------------------
DefaultConcurrency == 5

\* const concurrency = options?.concurrency ?? 5
Concurrency ==
    IF concurrencyOpt = {} THEN DefaultConcurrency
    ELSE CHOOSE n \in concurrencyOpt : TRUE

\* One (recipient, meta) input slot.  meta is a tag or None (missing); the
\* metas of one call are made distinct per index, as the records of distinct
\* users are.
Slot(r, m) == [recipient |-> r, meta |-> m]

InputSlots ==
    { Slot(Rcpt("string", "a"), "m"),
      Slot(Rcpt("string", "b"), "m"),
      Slot(Rcpt("string", ""), "m"),
      Slot(Rcpt("undefined", ""), "m"),
      Slot(Rcpt("string", "a"), None),
      Slot(Rcpt("number", "7"), "m") }

SeqsUpTo(S, n) == UNION { [1..k -> S] : k \in 0..n }

\* What the sendSingle callback may do for one recipient.
Outcome(kind, status, error, msg) ==
    [kind |-> kind, status |-> status, error |-> error, msg |-> msg]

NotRun == Outcome("notRun", None, None, None)

SendOutcomes ==
    { Outcome("return", "success", None, None),
      Outcome("return", "error", "400:Bad_Request", None),
      Outcome("null", None, None, None),
      Outcome("throwError", None, None, "boom"),
      Outcome("throwOther", None, None, None) }

\* The response a returning sendSingle builds from its meta argument.
SentResponse(idx) == "Sent " \o meta[idx]

\* Variant of the catch block that never reads error.message.
CatchSendSingleNoMessage(r, o) ==
    Result("error", Str(r), "INTERNAL_SEND_ERROR",
           "Unknown error during sendSingle execution")

\* The catch block of the scheduled task (lines 93-108).
CatchSendSingle(r, o) ==
    Result("error", Str(r), "INTERNAL_SEND_ERROR",
           IF o.kind = "throwError" THEN o.msg
           ELSE "Unknown error during sendSingle execution")

\* The value of `result` after the try/catch of the scheduled task
\* (lines 89-108); NoResult stands for null.
TaskResult(idx, o) ==
    CASE o.kind = "return" ->
            Result(o.status, Str(recipients[idx]), o.error,
                   IF o.status = "success" THEN SentResponse(idx) ELSE None)
      [] o.kind = "null" -> NoResult
      [] OTHER -> CatchSendSingle(recipients[idx], o)

\* Lines 111-126: what is written to results[currentIndex].
StoredResult(idx, o) ==
    LET result == TaskResult(idx, o)
    IN  IF result # NoResult THEN result
        ELSE Result("error", Str(recipients[idx]), "UNKNOWN_PROCESSING_FAILURE",
                    None)

\* Variant that fills the first free slot (results.push in completion order).
StoreAtPush(res, idx, r) ==
    LET holes == { k \in DOMAIN res : res[k] = NoResult }
        first == CHOOSE k \in holes : \A h \in holes : k <= h
    IN  [res EXCEPT ![first] = r]

\* results[currentIndex] = result   (currentIndex captured per iteration)
StoreAt(res, idx, r) == [res EXCEPT ![idx] = r]

N == Len(recipients)

BatchInit ==
    /\ \E slots \in SeqsUpTo(InputSlots, MaxLen) :
          /\ recipients = [k \in DOMAIN slots |-> slots[k].recipient]
          /\ meta = [k \in DOMAIN slots |->
                        IF slots[k].meta = None THEN None
                        ELSE slots[k].meta \o ToString(k - 1)]
    /\ concurrencyOpt \in {{}} \cup { {n} : n \in 1..MaxConcurrency }
    /\ i = 0
    /\ bpc = "loop"
    /\ results = [k \in 1..Len(recipients) |-> NoResult]
    /\ tasks = <<>>
    /\ taskState = [k \in 1..Len(recipients) |-> "none"]
    /\ sendLog = [k \in 1..Len(recipients) |-> NotRun]
    /\ outOfOrder = FALSE
    /\ successCount = 0
    /\ failureCount = 0
    /\ skippedCount = 0
    /\ finalResults = <<>>

\* Lines 54-67: recipient missing or empty.
SkipInvalidRecipient ==
    /\ bpc = "loop" /\ i < N
    /\ IsFalsy(recipients[i + 1])
    /\ results' = [results EXCEPT ![i + 1] =
            Result("error", "invalid_recipient_at_index_" \o ToString(i),
                   "Invalid recipient data", None)]
    /\ skippedCount' = skippedCount + 1
    /\ i' = i + 1
    /\ UNCHANGED <<recipients, meta, concurrencyOpt, bpc, tasks, taskState,
                   sendLog, successCount, failureCount, finalResults>>
    /\ UNCHANGED <<workerVars, trackerVars, otherVars>>
    /\ UNCHANGED outOfOrder

\* Lines 68-80: meta missing for a usable recipient.
SkipMissingMeta ==
    /\ bpc = "loop" /\ i < N
    /\ ~IsFalsy(recipients[i + 1])
    /\ meta[i + 1] = None
    /\ results' = [results EXCEPT ![i + 1] =
            Result("error", Str(recipients[i + 1]),
                   "Missing meta for recipient", None)]
    /\ skippedCount' = skippedCount + 1
    /\ i' = i + 1
    /\ UNCHANGED <<recipients, meta, concurrencyOpt, bpc, tasks, taskState,
                   sendLog, successCount, failureCount, finalResults>>
    /\ UNCHANGED <<workerVars, trackerVars, otherVars>>
    /\ UNCHANGED outOfOrder

\* Variant that waits one task too late (tasks.length > concurrency).
CapReachedLate(ts) == Len(ts) > Concurrency

\* tasks.length >= concurrency after the push (line 132)
CapReached(ts) == Len(ts) >= Concurrency

\* Lines 84-143: schedule the task, push it, and start awaiting the batch when
\* the tasks array has reached the concurrency.
SubmitTask ==
    /\ bpc = "loop" /\ i < N
    /\ ~IsFalsy(recipients[i + 1])
    /\ meta[i + 1] # None
    /\ taskState' = [taskState EXCEPT ![i + 1] = "pending"]
    /\ tasks' = Append(tasks, i + 1)
    /\ bpc' = IF CapReached(tasks') THEN "awaitBatch" ELSE "loop"
    /\ i' = i + 1
    /\ UNCHANGED <<recipients, meta, concurrencyOpt, results, sendLog,
                   successCount, failureCount, skippedCount, finalResults>>
    /\ UNCHANGED <<workerVars, trackerVars, otherVars>>
    /\ UNCHANGED outOfOrder

Awaiting == bpc \in {"awaitBatch", "awaitFinal"}

\* The scheduled task runs to its end (lines 87-127).  Tasks run only while
\* process() is suspended in an await; they may finish in any order.
TaskSettle(idx, o) ==
    /\ Awaiting
    /\ taskState[idx] = "pending"
    /\ sendLog' = [sendLog EXCEPT ![idx] = o]
    /\ outOfOrder' = (outOfOrder \/ \E k \in 1..(idx - 1) : taskState[k] = "pending")
    /\ LET r == StoredResult(idx, o)
       IN  /\ results' = StoreAt(results, idx, r)
           /\ successCount' = IF r.status = "success" THEN successCount + 1
                              ELSE successCount
           /\ failureCount' = IF r.status = "success" THEN failureCount
                              ELSE failureCount + 1
    /\ taskState' = [taskState EXCEPT ![idx] = "fulfilled"]
    /\ UNCHANGED <<recipients, meta, concurrencyOpt, i, bpc, tasks,
                   skippedCount, finalResults>>
    /\ UNCHANGED <<workerVars, trackerVars, otherVars>>

\* rateLimiter.schedule(...) rejects for this job without running it (line
\* 87): the limiter is a parameter of process(), and a job it refuses or
\* drops settles the task promise with the limiter's error.
TaskRejected(idx) ==
    /\ Awaiting
    /\ taskState[idx] = "pending"
    /\ taskState' = [taskState EXCEPT ![idx] = "rejected"]
    /\ UNCHANGED <<recipients, meta, concurrencyOpt, i, bpc, results, tasks,
                   sendLog, successCount, failureCount, skippedCount,
                   finalResults>>
    /\ UNCHANGED <<workerVars, trackerVars, otherVars>>
    /\ UNCHANGED outOfOrder

\* A task that was still pending when process() returned runs afterwards
\* (lines 87-127): it writes results, which finalResults no longer reads.
TaskSettlesAfterReturn(idx, o) ==
    /\ bpc = "done"
    /\ taskState[idx] = "pending"
    /\ sendLog' = [sendLog EXCEPT ![idx] = o]
    /\ LET r == StoredResult(idx, o)
       IN  /\ results' = StoreAt(results, idx, r)
           /\ successCount' = IF r.status = "success" THEN successCount + 1
                              ELSE successCount
           /\ failureCount' = IF r.status = "success" THEN failureCount
                              ELSE failureCount + 1
    /\ taskState' = [taskState EXCEPT ![idx] = "fulfilled"]
    /\ UNCHANGED <<recipients, meta, concurrencyOpt, i, bpc, tasks,
                   skippedCount, finalResults>>
    /\ UNCHANGED <<workerVars, trackerVars, otherVars>>
    /\ UNCHANGED outOfOrder

\* Promise.all(tasks) is settled: all fulfilled, or one already rejected.
AllSettled(ts) ==
    \/ \A k \in 1..Len(ts) : taskState[ts[k]] = "fulfilled"
    \/ \E k \in 1..Len(ts) : taskState[ts[k]] = "rejected"

\* Lines 137-142: the batch wait returns; tasks.length = 0.
AwaitBatchDone ==
    /\ bpc = "awaitBatch"
    /\ AllSettled(tasks)
    /\ tasks' = <<>>
    /\ bpc' = "loop"
    /\ UNCHANGED <<recipients, meta, concurrencyOpt, i, results, taskState,
                   sendLog, successCount, failureCount, skippedCount,
                   finalResults>>
    /\ UNCHANGED <<workerVars, trackerVars, otherVars>>
    /\ UNCHANGED outOfOrder

\* Lines 145-146: the loop is over; await the remaining tasks if any.
LoopExit ==
    /\ bpc = "loop" /\ i = N
    /\ bpc' = IF Len(tasks) > 0 THEN "awaitFinal" ELSE "finalize"
    /\ UNCHANGED <<recipients, meta, concurrencyOpt, i, results, tasks,
                   taskState, sendLog, successCount, failureCount,
                   skippedCount, finalResults>>
    /\ UNCHANGED <<workerVars, trackerVars, otherVars>>
    /\ UNCHANGED outOfOrder

\* Lines 151-155: the final wait returns.
AwaitFinalDone ==
    /\ bpc = "awaitFinal"
    /\ AllSettled(tasks)
    /\ bpc' = "finalize"
    /\ UNCHANGED <<recipients, meta, concurrencyOpt, i, results, tasks,
                   taskState, sendLog, successCount, failureCount,
                   skippedCount, finalResults>>
    /\ UNCHANGED <<workerVars, trackerVars, otherVars>>
    /\ UNCHANGED outOfOrder

\* Lines 159-166: recipients.map((_, idx) => results[idx] || {...})
FinalResultAt(idx) ==
    IF results[idx] # NoResult THEN results[idx]
    ELSE Result("error",
                IF IsFalsy(recipients[idx])
                THEN "unknown_at_index_" \o ToString(idx - 1)
                ELSE Str(recipients[idx]),
                "PROCESSING_ERROR_OR_SKIPPED", None)

\* Lines 159-177: build finalResults and return.
Finalize ==
    /\ bpc = "finalize"
    /\ finalResults' = [k \in 1..N |-> FinalResultAt(k)]
    /\ bpc' = "done"
    /\ UNCHANGED <<recipients, meta, concurrencyOpt, i, results, tasks,
                   taskState, sendLog, successCount, failureCount,
                   skippedCount>>
    /\ UNCHANGED <<workerVars, trackerVars, otherVars>>
    /\ UNCHANGED outOfOrder

\* ------------------------------------------------------------------------
\* The shared store: stats hashes
\* ------------------------------------------------------------------------
EmptyHash == [f \in {} |-> 0]

\* HINCRBY key field 1 on the hash h of one key
Hincrby(h, f) ==
    [x \in DOMAIN h \cup {f} |->
        IF x = f THEN (IF f \in DOMAIN h THEN h[f] ELSE 0) + 1 ELSE h[x]]

\* pipeline.exec(): the queued HINCRBYs applied in order, as one unit
RECURSIVE ExecPipeline(_, _)
ExecPipeline(h, fields) ==
    IF fields = <<>> THEN h
    ELSE ExecPipeline(Hincrby(h, Head(fields)), Tail(fields))

\* ------------------------------------------------------------------------
\* trackNotificationResponse
\* ------------------------------------------------------------------------
\* The `response: any` argument: an array of results, an object with
\* success/status/error fields, a primitive, null or undefined.
Resp(kind, items, success, status, error, val) ==
    [kind |-> kind, items |-> items, success |-> success, status |-> status,
     error |-> error, val |-> val]

ArrayResp(items) == Resp("array", items, None, None, None, None)
ObjectResp(success, error) == Resp("object", <<>>, success, None, error, None)
NullResp == Resp("null", <<>>, None, None, None, None)
UndefinedResp == Resp("undefined", <<>>, None, None, None, None)
StringResp(v) == Resp("string", <<>>, None, None, None, v)

\* JavaScript truthiness of a response value
Truthy(resp) ==
    \/ resp.kind \in {"array", "object"}
    \/ resp.kind = "string" /\ resp.val # ""

\* || on a string field: the empty string and undefined are both falsy
OrElse(v, dflt) == IF v \in {None, ""} THEN dflt ELSE v

\* Variant without the UNKNOWN_ERROR fallback.
GetErrorTrackingKeyNoFallback(status, error) ==
    IF status = "success" THEN "success"
    ELSE "error:" \o (IF error = None THEN "undefined" ELSE error)

\* getErrorTrackingKey (lines 9-17)
GetErrorTrackingKey(status, error) ==
    IF status = "success" THEN "success"
    ELSE "error:" \o OrElse(error, "UNKNOWN_ERROR")

\* Lines 35-58: the HINCRBY fields queued on the pipeline, in order.
PipelineFields(resp) ==
    CASE resp.kind = "array" ->
            [k \in 1..Len(resp.items) |->
                IF resp.items[k].status = "success" THEN "success"
                ELSE GetErrorTrackingKey(resp.items[k].status,
                                         resp.items[k].error)]
      [] resp.kind # "array" /\ Truthy(resp) /\ resp.success = "false" ->
            << GetErrorTrackingKey(resp.status, resp.error) >>
      [] resp.kind # "array" /\ Truthy(resp) /\ resp.success # "false" ->
            << "error:invalid_response_format" >>
      [] OTHER -> <<>>

\* Lines 60-65: the hash of trackingKey after the call (exec only if updates > 0)
TrackedHash(h, resp) == ExecPipeline(h, PipelineFields(resp))

TrackingKeys == {"tk1", "worker:stats", "notifications:stats"}

\* Hashes a tracking key may hold before a call
PriorHashes == { EmptyHash, [f \in {"success"} |-> 2] }

ResultItems ==
    { Result("success", "u1", None, "ok"),
      Result("error", "u2", "400:Bad_Request", None),
      Result("error", "u3", "", None),
      Result("error", "u4", None, None) }

ResponseInputs ==
    { ArrayResp(items) : items \in SeqsUpTo(ResultItems, MaxLen) }
    \cup { NullResp, UndefinedResp, StringResp(""), StringResp("sent"),
           ObjectResp("false", "GLOBAL_TIMEOUT"), ObjectResp("false", None),
           ObjectResp("true", None), ObjectResp(None, None) }


\* ------------------------------------------------------------------------
\* WorkerManager: configuration, job payloads, thrown errors
\* ------------------------------------------------------------------------
\* How the worker was started: `start` is "server" under startWorkerServer
\* (which always passes its onComplete wrapper) and "direct" for a
\* WorkerManager constructed without an onComplete callback.
Config(start, resetStats, trackingKey) ==
    [start |-> start, resetStatsAfterCompletion |-> resetStats,
     trackingKey |-> trackingKey]

Configs ==
    { Config("direct", FALSE, tk) : tk \in {None, "worker:stats"} }
    \cup { Config("server", r, tk) : r \in BOOLEAN, tk \in {None, "worker:stats"} }

\* job.data.userIds: an array, or something else (a string, undefined)
UserIds(isArray, items) == [isArray |-> isArray, items |-> items]

UserIdsValues ==
    { UserIds(FALSE, <<>>), UserIds(TRUE, <<>>), UserIds(TRUE, <<"u1", "u2">>) }

CampaignIds == {"c1"}

Channels == {"email", "sms"}

RegisteredChannels == {"email"}

Payload(campaignId, userIds, channel, trackResponses, trackingKey) ==
    [campaignId |-> campaignId, userIds |-> userIds, channel |-> channel,
     trackResponses |-> trackResponses, trackingKey |-> trackingKey]

Payloads ==
    { Payload(c, u, ch, t, k) :
        c \in CampaignIds \cup {None}, u \in UserIdsValues, ch \in Channels,
        t \in {"true", "false", None}, k \in {None, "tk1"} }

\* A thrown value: an Error with a message, or any other value (message
\* undefined).
Thrown(isError, message) == [isError |-> isError, message |-> message]

NoError == Thrown(FALSE, "<none thrown>")

\* What notifier.send may do: resolve with one Result per recipient, resolve
\* with undefined, or reject.
SendReturn(kind, resp, err) == [kind |-> kind, resp |-> resp, err |-> err]

NotSent == SendReturn("notSent", UndefinedResp, NoError)

AdapterResult(u, ok) ==
    IF ok THEN Result("success", u, None, "ok")
    ELSE Result("error", u, "400:Bad_Request", None)

AdapterReturns(userIds) ==
    { SendReturn("return",
                 ArrayResp([k \in DOMAIN userIds |-> AdapterResult(userIds[k], oks[k])]),
                 NoError) :
        oks \in [DOMAIN userIds -> BOOLEAN] }
    \cup { SendReturn("return", UndefinedResp, NoError) }

AdapterThrows ==
    { SendReturn("throw", UndefinedResp, Thrown(TRUE, "SMS Gateway Timeout")),
      SendReturn("throw", UndefinedResp, Thrown(TRUE, "")),
      SendReturn("throw", UndefinedResp, Thrown(FALSE, None)) }

\* One store command issued on behalf of a job
StoreOp(op, key, field, removed) ==
    [op |-> op, key |-> key, field |-> field, removed |-> removed]

\* A job: its payload, the position of its processor / completed handler,
\* and what has been observed of it so far.
Job(id, data) ==
    [id |-> id, data |-> data, pc |-> "waiting",
     cancelRead |-> "notRead",       \* notRead | readError | the value read
     flagAtRead |-> "notRead",       \* the store value when the read was served
     registryCalls |-> 0,            \* NotifierRegistry.get calls
     sendCalls |-> <<>>,             \* userIds of each notifier.send call
     sendReturn |-> NotSent,         \* how notifier.send settled
     trackCalls |-> <<>>,            \* (key, response) of each tracker call
     pending |-> UndefinedResp,      \* response of the tracker call in flight
     caught |-> NoError,             \* the error the catch block holds
     rejected |-> NoError,           \* the error the processor rejected with
     storeOps |-> <<>>,              \* stats commands applied for this job
     statsSeen |-> EmptyHash,        \* stats handed to onComplete
     callback |-> "none",            \* none | returned | threw: the user's onComplete
     onStart |-> "none",             \* none | returned | threw: the user's onStart
     failedAttempts |-> 0]           \* earlier attempts of this job, all failed

\* `${job.id}` of the job in slot id
JobIdStr(id) == "job" \o ToString(id)

\* Variant that ignores the key carried by the job.
ResolvedTrackingKeyOfWorker(data) ==
    OrElse(cfg.trackingKey, "notifications:stats")

\* Lines 259-260 (and part_015 lines 140-144):
\* trackingKey || this.config.trackingKey || "notifications:stats"
ResolvedTrackingKey(data) ==
    OrElse(data.trackingKey, OrElse(cfg.trackingKey, "notifications:stats"))

\* Variant that takes any value other than "false" as a cancellation.
IsCancelledLoose(v) == v \notin {None, "false"}

\* cancelStatus === "true"  (line 246)
IsCancelled(v) == v = "true"

\* Variant whose error response is nothing the tracker counts.
ErrorResponseUntracked(err) == UndefinedResp

\* error.message || "Unknown processing error"  (line 289)
ErrorResponse(err) ==
    ObjectResp("false", OrElse(err.message, "Unknown processing error"))

\* NotifierRegistry.get (NotifierRegistry.ts lines 59-70)
RegistryError(channel) ==
    Thrown(TRUE, "Notifier for channel \"" \o channel \o "\" not registered.")

\* Lines 263-266
InvalidUserIdsError(id) ==
    Thrown(TRUE, "Invalid userIds data in job " \o JobIdStr(id))

\* Variant that also rejects an empty array.
UserIdsInvalidStrict(userIds) == ~userIds.isArray \/ userIds.items = <<>>

\* !Array.isArray(userIds)  (line 263)
UserIdsInvalid(userIds) == ~userIds.isArray

\* Variant that tracks unless trackResponses is explicitly false.
TrackOnByDefault(data) == data.trackResponses # "false"

\* trackResponses as a condition (lines 272, 286)
TrackOn(data) == data.trackResponses = "true"

\* Variant of the catch block that rethrows without tracking.
CatchNoTrack(job, err) ==
    [job EXCEPT !.pc = "failed", !.caught = err, !.rejected = err]

\* Lines 281-298: the catch block up to its await (tracking) or its rethrow.

Catch(job, err) ==
    IF TrackOn(job.data)
    THEN [job EXCEPT !.pc = "trackError", !.caught = err,
                     !.pending = ErrorResponse(err),
                     !.trackCalls = Append(@, <<ResolvedTrackingKey(job.data),
                                                ErrorResponse(err)>>)]
    ELSE [job EXCEPT !.pc = "failed", !.caught = err, !.rejected = err]

\* Variant that cancels by throwing.
SkipJobThrow(job) == Catch(job, Thrown(TRUE, "Job cancelled via flag."))

\* Lines 247-248: return; the processor resolves and the job completes.
SkipJob(job) == [job EXCEPT !.pc = "returned"]

\* Lines 258-270: from the destructuring of job.data to the call of
\* notifier.send, run without suspension.
ProcessBody(job) ==
    IF UserIdsInvalid(job.data.userIds)
    THEN Catch(job, InvalidUserIdsError(job.id))
    ELSE IF job.data.channel \notin registry
    THEN Catch([job EXCEPT !.registryCalls = @ + 1], RegistryError(job.data.channel))
    ELSE [job EXCEPT !.registryCalls = @ + 1,
                     !.sendCalls = Append(@, job.data.userIds.items),
                     !.pc = "sending"]

JobIds == DOMAIN jobs

\* Variant of a listener without the try/catch around the user's callback.
ListenerNoCatch(outcome) ==
    IF outcome = "threw" THEN "rejected" ELSE "resolved"

\* What becomes of the promise of an event listener whose user callback
\* returned or threw: the catch blocks (lines 112-119, 143-155, 192-199;
\* part_015 lines 166-173) log the error and the listener resolves
ListenerCatch(outcome) == "resolved"

\* "active" listener (lines 104-121): BullMQ emits the event once the job is
\* claimed; the user's onStart is awaited, and settles
ActiveEvent(j) ==
    /\ jobs[j].pc # "waiting"
    /\ jobs[j].onStart = "none"
    /\ \E outcome \in {"returned", "threw"} :
          /\ jobs' = [jobs EXCEPT ![j].onStart = outcome]
          /\ unhandled' = (unhandled \/ ListenerCatch(outcome) = "rejected")
    /\ UNCHANGED <<cfg, cancelFlags, statsStore, registry>>
    /\ UNCHANGED <<batchVars, trackerVars, producerVars, retryVars,
                   bucketVars, limiterVars, closeVars, drainVars, tailVars>>

\* The processor is invoked for a claimed job (lines 231-243): it issues the
\* GET of the cancellation key when the job carries a campaignId, and
\* otherwise runs straight on to the send.
ClaimJob(j) ==
    /\ jobs[j].pc = "waiting"
    /\ jobs' = [jobs EXCEPT ![j] =
            IF jobs[j].data.campaignId # None
            THEN [jobs[j] EXCEPT !.pc = "cancelGet"]
            ELSE ProcessBody(jobs[j])]
    /\ UNCHANGED <<cfg, cancelFlags, statsStore, registry>>
    /\ UNCHANGED <<batchVars, trackerVars, otherVars>>

\* Lines 245-249, 258-270: the GET is served with the value the store holds
\* now; "true" makes the processor return, anything else lets it go on.
CancelGetReply(j) ==
    /\ jobs[j].pc = "cancelGet"
    /\ LET v == cancelFlags[jobs[j].data.campaignId]
           job == [jobs[j] EXCEPT !.cancelRead = v, !.flagAtRead = v]
       IN  jobs' = [jobs EXCEPT ![j] =
                IF IsCancelled(v) THEN SkipJob(job)
                ELSE ProcessBody(job)]
    /\ UNCHANGED <<cfg, cancelFlags, statsStore, registry>>
    /\ UNCHANGED <<batchVars, trackerVars, otherVars>>

\* Variant in which the failed GET fails the job.
CancelGetFailsRejects(j) ==
    /\ jobs[j].pc = "cancelGet"
    /\ jobs' = [jobs EXCEPT ![j] =
            [jobs[j] EXCEPT
                !.cancelRead = "readError",
                !.flagAtRead = cancelFlags[jobs[j].data.campaignId],
                !.pc = "failed",
                !.rejected = Thrown(TRUE, "Redis unavailable")]]
    /\ UNCHANGED <<cfg, cancelFlags, statsStore, registry>>
    /\ UNCHANGED <<batchVars, trackerVars, otherVars>>

\* Lines 250-255: the GET fails; the processor logs and proceeds.
CancelGetFails(j) ==
    /\ jobs[j].pc = "cancelGet"
    /\ jobs' = [jobs EXCEPT ![j] =
            ProcessBody([jobs[j] EXCEPT
                !.cancelRead = "readError",
                !.flagAtRead = cancelFlags[jobs[j].data.campaignId]])]
    /\ UNCHANGED <<cfg, cancelFlags, statsStore, registry>>
    /\ UNCHANGED <<batchVars, trackerVars, otherVars>>

\* Variant that looks at the cancellation flag again before tracking.
AfterSendRecheck(job, resp) ==
    IF /\ TrackOn(job.data) /\ Truthy(resp)
       /\ ~(job.data.campaignId # None /\ cancelFlags[job.data.campaignId] = "true")
    THEN [job EXCEPT !.pc = "trackResult", !.pending = resp,
                     !.trackCalls = Append(@, <<ResolvedTrackingKey(job.data), resp>>)]
    ELSE [job EXCEPT !.pc = "returned"]

\* Lines 270-280: notifier.send resolves with `response`.
AfterSend(job, resp) ==
    IF TrackOn(job.data) /\ Truthy(resp)
    THEN [job EXCEPT !.pc = "trackResult", !.pending = resp,
                     !.trackCalls = Append(@, <<ResolvedTrackingKey(job.data), resp>>)]
    ELSE [job EXCEPT !.pc = "returned"]

\* notifier.send settles: it resolves (lines 270-280) or rejects (281-298).
SendSettles(j, r) ==
    /\ jobs[j].pc = "sending"
    /\ LET job == [jobs[j] EXCEPT !.sendReturn = r]
       IN  jobs' = [jobs EXCEPT ![j] =
                IF r.kind = "return" THEN AfterSend(job, r.resp)
                ELSE Catch(job, r.err)]
    /\ UNCHANGED <<cfg, cancelFlags, statsStore, registry>>
    /\ UNCHANGED <<batchVars, trackerVars, otherVars>>

\* The commands one tracker call applies to the store
IncrOps(key, fields) ==
    [k \in 1..Len(fields) |-> StoreOp("hincrby", key, fields[k], EmptyHash)]

\* The awaited trackNotificationResponse call completes (lines 273-279 and
\* 291-298): its pipeline is applied to the store, then the processor
\* returns, or rethrows the error it caught.
TrackExec(j) ==
    /\ jobs[j].pc \in {"trackResult", "trackError"}
    /\ LET job == jobs[j]
           key == ResolvedTrackingKey(job.data)
       IN  /\ statsStore' = [statsStore EXCEPT ![key] = TrackedHash(@, job.pending)]
           /\ jobs' = [jobs EXCEPT ![j] =
                [job EXCEPT
                    !.storeOps = @ \o IncrOps(key, PipelineFields(job.pending)),
                    !.pc = IF job.pc = "trackResult" THEN "returned" ELSE "failed",
                    !.rejected = IF job.pc = "trackResult" THEN NoError
                                 ELSE job.caught]]
    /\ UNCHANGED <<cfg, cancelFlags, registry>>
    /\ UNCHANGED <<batchVars, trackerVars, otherVars>>

\* "completed" handler (lines 123-157): with an onComplete callback
\* configured, the stats of the resolved tracking key are read for it.
CompletedEvent(j) ==
    /\ jobs[j].pc = "returned"
    /\ jobs' = [jobs EXCEPT ![j] =
            IF cfg.start = "server"
            THEN [jobs[j] EXCEPT
                    !.statsSeen = statsStore[ResolvedTrackingKey(jobs[j].data)],
                    !.pc = "onComplete"]
            ELSE [jobs[j] EXCEPT !.pc = "finished"]]
    /\ UNCHANGED <<cfg, cancelFlags, statsStore, registry>>
    /\ UNCHANGED <<batchVars, trackerVars, otherVars>>

\* startWorkerServer's onComplete wrapper (part_015 lines 157-181): the
\* user callback has run (or thrown, which is caught); the reset follows if
\* configured.
OnCompleteCallback(j) ==
    /\ jobs[j].pc = "onComplete"
    /\ \E outcome \in {"returned", "threw"} :
          /\ jobs' = [jobs EXCEPT
                 ![j].callback = outcome,
                 ![j].pc = IF cfg.resetStatsAfterCompletion THEN "resetting"
                           ELSE "finished"]
          /\ unhandled' = (unhandled \/ ListenerCatch(outcome) = "rejected")
    /\ UNCHANGED <<cfg, cancelFlags, statsStore, registry>>
    /\ UNCHANGED <<batchVars, trackerVars, producerVars, retryVars,
                   bucketVars, limiterVars, closeVars, drainVars, tailVars>>

\* part_015 lines 181-198 with resetNotificationStats (ResponseTrackers.ts
\* lines 95-111): DEL of the resolved tracking key.
ResetStats(j) ==
    /\ jobs[j].pc = "resetting"
    /\ LET key == ResolvedTrackingKey(jobs[j].data)
       IN  /\ statsStore' = [statsStore EXCEPT ![key] = EmptyHash]
           /\ jobs' = [jobs EXCEPT ![j] =
                [jobs[j] EXCEPT
                    !.storeOps = Append(@, StoreOp("del", key, None, statsStore[key])),
                    !.pc = "finished"]]
    /\ UNCHANGED <<cfg, cancelFlags, registry>>
    /\ UNCHANGED <<batchVars, trackerVars, otherVars>>

\* The processor rejected (line 298) and the job has attempts left: BullMQ
\* moves it back to the wait list and the processor is invoked again on the
\* same job data.
QueueRetries(j) ==
    /\ jobs[j].pc = "failed"
    /\ jobs[j].failedAttempts < MaxRetries
    /\ jobs' = [jobs EXCEPT ![j] =
            [Job(j, jobs[j].data) EXCEPT
                !.storeOps = jobs[j].storeOps,
                !.failedAttempts = jobs[j].failedAttempts + 1]]
    /\ UNCHANGED <<cfg, cancelFlags, statsStore, registry>>
    /\ UNCHANGED <<batchVars, trackerVars, otherVars>>

\* ------------------------------------------------------------------------
\* The same handlers on a store whose commands may fail
\* ------------------------------------------------------------------------
\* Variant of the tracker's catch that lets the store error escape.
TrackerCatchRethrow(job) ==
    [job EXCEPT !.pc = "failed", !.rejected = Thrown(TRUE, "Redis unavailable")]

\* ResponseTrackers.ts lines 66-71: the store error is logged and swallowed,
\* the call resolves, and the awaiting processor goes on as after a
\* successful tracking: it returns, or rethrows the error it had caught.
TrackerCatch(job) ==
    [job EXCEPT !.pc = IF job.pc = "trackResult" THEN "returned" ELSE "failed",
                !.rejected = IF job.pc = "trackResult" THEN NoError
                             ELSE job.caught]

\* pipeline.exec() rejects (ResponseTrackers.ts line 61) during the awaited
\* tracker call; the queued commands were applied before the failure, or not.
TrackExecFails(j, applied) ==
    /\ jobs[j].pc \in {"trackResult", "trackError"}
    /\ PipelineFields(jobs[j].pending) # <<>>
    /\ LET job == jobs[j]
           key == ResolvedTrackingKey(job.data)
       IN  /\ statsStore' = [statsStore EXCEPT ![key] =
                    IF applied THEN TrackedHash(@, job.pending) ELSE @]
           /\ jobs' = [jobs EXCEPT ![j] =
                TrackerCatch([job EXCEPT !.storeOps =
                    Append(@, StoreOp("execError", key, None, EmptyHash))])]
    /\ UNCHANGED <<cfg, cancelFlags, registry>>
    /\ UNCHANGED <<batchVars, trackerVars, otherVars>>

\* redis.hgetall rejects inside getNotificationStats (lines 85-92), which
\* returns {}; the completed handler hands that to onComplete (WorkerManager.ts
\* lines 143-149).
GetStatsFails(j) ==
    /\ jobs[j].pc = "returned"
    /\ cfg.start = "server"
    /\ jobs' = [jobs EXCEPT ![j] =
            [jobs[j] EXCEPT
                !.statsSeen = EmptyHash,
                !.storeOps = Append(@, StoreOp("hgetallError",
                                ResolvedTrackingKey(jobs[j].data), None, EmptyHash)),
                !.pc = "onComplete"]]
    /\ UNCHANGED <<cfg, cancelFlags, statsStore, registry>>
    /\ UNCHANGED <<batchVars, trackerVars, otherVars>>

\* redis.del rejects inside resetNotificationStats (lines 105-110): logged
\* and swallowed; the key keeps its contents.
ResetStatsFails(j) ==
    /\ jobs[j].pc = "resetting"
    /\ jobs' = [jobs EXCEPT ![j] =
            [jobs[j] EXCEPT
                !.storeOps = Append(@, StoreOp("delError",
                                ResolvedTrackingKey(jobs[j].data), None, EmptyHash)),
                !.pc = "finished"]]
    /\ UNCHANGED <<cfg, cancelFlags, statsStore, registry>>
    /\ UNCHANGED <<batchVars, trackerVars, otherVars>>

\* Values an operator may leave at a cancellation key
FlagValues == {None, "true", "false", "yes"}

\* An operator sets the flag of a campaign (README, Campaign Cancellation).
SetCancelFlag(c, v) ==
    /\ v # None
    /\ cancelFlags[c] # v
    /\ cancelFlags' = [cancelFlags EXCEPT ![c] = v]
    /\ UNCHANGED <<cfg, statsStore, registry, jobs>>
    /\ UNCHANGED <<batchVars, trackerVars, otherVars>>

\* An operator deletes the flag (README step 4), or its TTL expires.
DelCancelFlag(c) ==
    /\ cancelFlags[c] # None
    /\ cancelFlags' = [cancelFlags EXCEPT ![c] = None]
    /\ UNCHANGED <<cfg, statsStore, registry, jobs>>
    /\ UNCHANGED <<batchVars, trackerVars, otherVars>>

\* ------------------------------------------------------------------------
\* retryWithBackoff (part_022 lines 138-193)
\* ------------------------------------------------------------------------
\* The operation handed to retryWithBackoff fails `fails` times and then
\* succeeds, or (fails = AlwaysFails) fails at every call.
AlwaysFails == 0 - 1

OperationFails(fails, attempt) == fails = AlwaysFails \/ attempt < fails

\* Variant that gives up one attempt early.
IsLastErrorEarly(attempt, maxRetries) == attempt + 1 >= maxRetries

\* const isLastError = attempt === maxRetries   (line 164)
IsLastError(attempt, maxRetries) == attempt = maxRetries

\* Variant with a delay growing linearly.
BackoffLinear(baseDelay, attempt) == baseDelay * (attempt + 1)

\* const delay = baseDelay * Math.pow(2, attempt)   (line 178)
Backoff(baseDelay, attempt) == baseDelay * 2^attempt

\* One event of a retryWithBackoff call: a call of the operation, or a
\* setTimeout delay.
RetryEvent(ev, ok, ms) == [ev |-> ev, ok |-> ok, ms |-> ms]

\* Result of a retryWithBackoff call; `err` is the attempt whose error is
\* thrown (-1: none, or the new Error of line 188).
RetryResult(result, err, trace) == [result |-> result, err |-> err, trace |-> trace]

NoRetry == RetryResult("none", 0 - 1, <<>>)

\* The while loop of lines 153-186 followed by lines 188-192.
RECURSIVE RetryLoop(_, _, _, _, _)
RetryLoop(fails, maxRetries, baseDelay, attempt, trace) ==
    IF attempt > maxRetries
    THEN RetryResult("throwFinal", 0 - 1, trace)
    ELSE IF ~OperationFails(fails, attempt)
    THEN RetryResult("return", 0 - 1,
                     Append(trace, RetryEvent("attempt", TRUE, 0)))
    ELSE IF IsLastError(attempt, maxRetries)
    THEN RetryResult("throw", attempt,
                     Append(trace, RetryEvent("attempt", FALSE, 0)))
    ELSE RetryLoop(fails, maxRetries, baseDelay, attempt + 1,
                   trace \o << RetryEvent("attempt", FALSE, 0),
                               RetryEvent("delay", FALSE, Backoff(baseDelay, attempt)) >>)

RetryWithBackoff(fails, maxRetries, baseDelay) ==
    RetryLoop(fails, maxRetries, baseDelay, 0, <<>>)

DefaultMaxRetries == 5      \* maxRetries: number = 5
DefaultBaseDelay == 500     \* baseDelay: number = 500

CallRetryWithBackoff ==
    /\ rtPc = "ready"
    /\ rtResult' = RetryWithBackoff(rtInput.fails, rtInput.maxRetries,
                                    rtInput.baseDelay)
    /\ rtPc' = "done"
    /\ UNCHANGED rtInput
    /\ UNCHANGED <<batchVars, workerVars, trackerVars, producerVars, bucketVars,
                 laterVars>>

\* ------------------------------------------------------------------------
\* dispatchNotifications over processInBatches
\* (runBatchNotificationProcessor.ts lines 146-291, part_022 lines 7-125)
\* ------------------------------------------------------------------------
DefaultBatchSize == 1000        \* options?.batchSize ?? 1000
MaxConcurrentBatches == 3       \* const maxConcurrentBatches = 3
DefaultEnqueueRetries == 3      \* options.enqueueRetries ?? 3
DefaultEnqueueBaseDelay == 200  \* options.enqueueBaseDelay ?? 200

BatchSize ==
    IF batchSizeOpt = {} THEN DefaultBatchSize ELSE CHOOSE n \in batchSizeOpt : TRUE

\* Variant that ignores options.enqueueRetries.
EnqueueMaxRetriesFixed == DefaultEnqueueRetries

EnqueueMaxRetries ==
    IF enqueueRetriesOpt = {} THEN DefaultEnqueueRetries
    ELSE CHOOSE n \in enqueueRetriesOpt : TRUE

\* A page of records: the records from+1 .. from+count of the database
Page(from, count) == [from |-> from, count |-> count]

\* State of the promise of one handler invocation
Handler(state, fails, retry) == [state |-> state, fails |-> fails, retry |-> retry]

\* What dispatch settles with
Settled(kind, op, page) == [kind |-> kind, op |-> op, page |-> page]

\* Variant advancing by the requested limit.
NextOffsetByLimit(off, itemCount) == off + BatchSize

\* offset += itemCount   (part_022 line 101)
NextOffset(off, itemCount) == off + itemCount

\* Variant that also skips the enqueue of a single record.
SkipsEnqueueShort(page) == page.count <= 1

\* if (records.length === 0) return;   (runBatchNotificationProcessor.ts
\* lines 196-201): the handler resolves without enqueueing.
SkipsEnqueue(page) == page.count = 0

\* Variant that takes every settled handler for a fulfilled one.
FulfilledAny(b) == handlers[b].state # "pending"

\* The handler promise of batch b is fulfilled
Fulfilled(b) == handlers[b].state \in {"resolved", "skipped"}

\* Variant of the in-loop catch that forgets the failed set.
AfterSetRejectedCleared(active) == <<>>

\* part_022 lines 88-96: the catch of the in-loop wait breaks out of the
\* loop and leaves activeBatches as it is.
AfterSetRejected(active) == active

\* Variant that waits one handler too late.
SetFullLate(active) == Len(active) > MaxConcurrentBatches

\* activeBatches.length >= maxConcurrentBatches   (part_022 line 81)
SetFull(active) == Len(active) >= MaxConcurrentBatches

\* One iteration of the while loop (part_022 lines 28-101) up to its next
\* await: processBatch(offset, batchSize), which is dbQuery under
\* retryWithBackoff with its default parameters (runBatchNotificationProcessor.ts
\* lines 185-194), returns n records or throws; a non-empty page is handed to
\* the handler and its promise pushed to activeBatches.
Fetch(n, fails) ==
    /\ ppc = "fetch"
    /\ LET r == RetryWithBackoff(fails, DefaultMaxRetries, DefaultBaseDelay)
           left == IF dbTotal > offset THEN dbTotal - offset ELSE 0
           most == IF BatchSize < left THEN BatchSize ELSE left
           batchNum == Len(handlerLog) + 1
       IN  /\ n \in 0..most
           /\ r.result # "return" => n = 0
           /\ fetchLog' = Append(fetchLog,
                    [offset |-> offset, limit |-> BatchSize, count |-> n, retry |-> r])
           /\ IF r.result # "return"
              THEN /\ ppc' = "done"
                   /\ dispatchResult' =
                        Settled("rejected", "DatabaseQuery", Len(fetchLog) + 1)
                   /\ UNCHANGED <<offset, handlerLog, activeBatches, handlers>>
              ELSE IF n = 0
              THEN /\ ppc' = "final"
                   /\ UNCHANGED <<offset, handlerLog, activeBatches, handlers,
                                  dispatchResult>>
              ELSE /\ handlerLog' = Append(handlerLog, Page(offset, n))
                   /\ handlers' = Append(handlers,
                        Handler(IF SkipsEnqueue(Page(offset, n)) THEN "skipped"
                                ELSE "pending", 0, NoRetry))
                   /\ activeBatches' = Append(activeBatches, batchNum)
                   /\ IF SetFull(activeBatches')
                      THEN ppc' = "awaitSet" /\ UNCHANGED offset
                      ELSE ppc' = "fetch" /\ offset' = NextOffset(offset, n)
                   /\ UNCHANGED dispatchResult
    /\ UNCHANGED <<dbTotal, batchSizeOpt, enqueueRetriesOpt, queue>>
    /\ UNCHANGED <<batchVars, workerVars, trackerVars, retryVars, bucketVars,
                 laterVars>>

\* The handler of batch b settles (runBatchNotificationProcessor.ts lines
\* 195-252): QueueManager.enqueueJob under retryWithBackoff; every call of
\* queue.add that succeeds persists one job (QueueManager.ts line 44).
HandlerSettle(b, fails) ==
    /\ b \in 1..Len(handlers)
    /\ handlers[b].state = "pending"
    /\ LET r == RetryWithBackoff(fails, EnqueueMaxRetries, DefaultEnqueueBaseDelay)
           added == SelectSeq(r.trace, LAMBDA e : e.ev = "attempt" /\ e.ok)
       IN  /\ queue' = queue \o
                    [k \in 1..Len(added) |-> [batch |-> b, userIds |-> handlerLog[b]]]
           /\ handlers' = [handlers EXCEPT ![b] =
                    Handler(IF r.result = "return" THEN "resolved" ELSE "rejected",
                            fails, r)]
    /\ UNCHANGED <<dbTotal, batchSizeOpt, enqueueRetriesOpt, offset, ppc,
                   fetchLog, handlerLog, activeBatches, dispatchResult>>
    /\ UNCHANGED <<batchVars, workerVars, trackerVars, retryVars, bucketVars,
                 laterVars>>

\* Variant that goes on as soon as one handler of the set has finished.
AwaitSetDoneAny ==
    /\ ppc = "awaitSet"
    /\ \E k \in 1..Len(activeBatches) : Fulfilled(activeBatches[k])
    /\ activeBatches' = <<>>
    /\ offset' = NextOffset(offset, handlerLog[Len(handlerLog)].count)
    /\ ppc' = "fetch"
    /\ UNCHANGED <<dbTotal, batchSizeOpt, enqueueRetriesOpt, fetchLog,
                   handlerLog, handlers, queue, dispatchResult>>
    /\ UNCHANGED <<batchVars, workerVars, trackerVars, retryVars, bucketVars,
                 laterVars>>

\* part_022 lines 86-101: await Promise.all(activeBatches) returns and the
\* set is reset, or rejects and the loop is left.
AwaitSetDone ==
    /\ ppc = "awaitSet"
    /\ \/ /\ \A k \in 1..Len(activeBatches) :
                Fulfilled(activeBatches[k])
          /\ activeBatches' = <<>>
          /\ offset' = NextOffset(offset, handlerLog[Len(handlerLog)].count)
          /\ ppc' = "fetch"
       \/ /\ \E k \in 1..Len(activeBatches) :
                handlers[activeBatches[k]].state = "rejected"
          /\ activeBatches' = AfterSetRejected(activeBatches)
          /\ ppc' = "final"
          /\ UNCHANGED offset
    /\ UNCHANGED <<dbTotal, batchSizeOpt, enqueueRetriesOpt, fetchLog,
                   handlerLog, handlers, queue, dispatchResult>>
    /\ UNCHANGED <<batchVars, workerVars, trackerVars, retryVars, bucketVars,
                 laterVars>>

\* Variant that returns only when every remaining handler is fulfilled.
AwaitRemainingFulfilledOnly ==
    /\ ppc = "final"
    /\ \A k \in 1..Len(activeBatches) : Fulfilled(activeBatches[k])
    /\ dispatchResult' = Settled("resolved", None, 0)
    /\ ppc' = "done"
    /\ UNCHANGED <<dbTotal, batchSizeOpt, enqueueRetriesOpt, offset, fetchLog,
                   handlerLog, activeBatches, handlers, queue>>
    /\ UNCHANGED <<batchVars, workerVars, trackerVars, retryVars, bucketVars,
                 laterVars>>

\* part_022 lines 105-124 and runBatchNotificationProcessor.ts lines 258-259:
\* the remaining handlers are awaited; processInBatches returns, or throws
\* the error of a rejected handler, which dispatch rethrows.
AwaitRemaining ==
    /\ ppc = "final"
    /\ \/ /\ \A k \in 1..Len(activeBatches) :
                Fulfilled(activeBatches[k])
          /\ dispatchResult' = Settled("resolved", None, 0)
       \/ \E k \in 1..Len(activeBatches) :
             /\ handlers[activeBatches[k]].state = "rejected"
             /\ dispatchResult' =
                    Settled("rejected", "EnqueueJobBatch", activeBatches[k])
    /\ ppc' = "done"
    /\ UNCHANGED <<dbTotal, batchSizeOpt, enqueueRetriesOpt, offset, fetchLog,
                   handlerLog, activeBatches, handlers, queue>>
    /\ UNCHANGED <<batchVars, workerVars, trackerVars, retryVars, bucketVars,
                 laterVars>>

\* ------------------------------------------------------------------------
\* TokenBucketRateLimiter (part_021 lines 19-101)
\* Token amounts are kept in thousandths, so that refillRate =
\* maxRatePerSecond / 1000 tokens per ms is one thousandth times the rate.
\* ------------------------------------------------------------------------
\* Date.now()
DateNow == mono - wallBack

\* this.capacity = maxRatePerSecond   (line 32)
Capacity == tbRate * 1000

\* Variant without the cap.
RefillTokensUncapped(tokens, elapsedTime) == tokens + elapsedTime * tbRate

\* Math.min(this.capacity, this.tokens + elapsedTime * this.refillRate)
\* (lines 53-55)
RefillTokens(tokens, elapsedTime) ==
    IF tokens + elapsedTime * tbRate > Capacity THEN Capacity
    ELSE tokens + elapsedTime * tbRate

\* refillTokens() (lines 44-62): tokens and lastRefillTimestamp after it
Refilled ==
    IF DateNow - tbLast <= 0
    THEN [tokens |-> tbTokens, last |-> tbLast]
    ELSE [tokens |-> RefillTokens(tbTokens, DateNow - tbLast), last |-> DateNow]

\* acquire() is called (lines 64-82): it takes a token and returns, or
\* enters the wait loop.
Acquire ==
    /\ Len(tbAcquired) + tbPending < MaxAcquires
    /\ Refilled.tokens >= 1000 \/ tbPending < MaxPending
    /\ tbLast' = Refilled.last
    /\ IF Refilled.tokens >= 1000
       THEN /\ tbTokens' = Refilled.tokens - 1000
            /\ tbAcquired' = Append(tbAcquired, mono)
            /\ UNCHANGED tbPending
       ELSE /\ tbTokens' = Refilled.tokens
            /\ tbPending' = tbPending + 1
            /\ UNCHANGED tbAcquired
    /\ UNCHANGED <<tbRate, mono, wallBack>>
    /\ UNCHANGED <<batchVars, workerVars, trackerVars, producerVars, retryVars,
                 laterVars>>

\* The timer of a waiting acquire() fires (lines 83-100): it refills, and
\* either waits again or leaves the loop, takes a token and returns.
WaiterWakes ==
    /\ tbPending > 0
    /\ tbLast' = Refilled.last
    /\ IF Refilled.tokens < 1000
       THEN /\ tbTokens' = Refilled.tokens
            /\ UNCHANGED <<tbPending, tbAcquired>>
       ELSE /\ tbTokens' = Refilled.tokens - 1000
            /\ tbPending' = tbPending - 1
            /\ tbAcquired' = Append(tbAcquired, mono)
    /\ UNCHANGED <<tbRate, mono, wallBack>>
    /\ UNCHANGED <<batchVars, workerVars, trackerVars, producerVars, retryVars,
                 laterVars>>

\* Time passes.
ClockAdvances ==
    /\ mono < MaxTicks * TickMs
    /\ mono' = mono + TickMs
    /\ UNCHANGED <<tbRate, tbTokens, tbLast, wallBack, tbPending, tbAcquired>>
    /\ UNCHANGED <<batchVars, workerVars, trackerVars, producerVars, retryVars,
                 laterVars>>

\* The wall clock read by Date.now() is set back.
ClockSetBack ==
    /\ wallBack = 0
    /\ wallBack' = TickMs
    /\ UNCHANGED <<tbRate, tbTokens, tbLast, mono, tbPending, tbAcquired>>
    /\ UNCHANGED <<batchVars, workerVars, trackerVars, producerVars, retryVars,
                 laterVars>>

\* ------------------------------------------------------------------------
\* RateLimiter (part_021 lines 3-16) and the adapters that hold one
\* Bottleneck itself is a library: its documented behaviour is taken as
\* given (a task starts only while fewer than maxConcurrent tasks of the
\* limiter run and minTime has passed since the limiter's last start, in
\* the order of the schedule() calls).
\* ------------------------------------------------------------------------
\* Variant: a limiter made for each send() call.
LimiterPerSend(j) == j

\* The limiter a send() of job j schedules through: the field
\* this.rateLimiter, set once in the adapter's constructor.  Limiter 0 is
\* that field.
LimiterOf(j) == 0

\* new Bottleneck({maxConcurrent: maxRequests,
\*                 minTime: perMilliseconds / maxRequests})
\* minTime is kept as the fraction num / den
BottleneckOptions(maxRequests, perMilliseconds) ==
    [maxConcurrent |-> maxRequests,
     minTimeNum |-> perMilliseconds, minTimeDen |-> maxRequests]

\* batchSender.process of job j calls rateLimiter.schedule(fn)
\* (BatchSender.ts line 87, part_021 lines 13-15)
Schedule(j) ==
    /\ Len(lmTasks) < MaxTasks
    /\ lmTasks' = Append(lmTasks, [job |-> j, limiter |-> LimiterOf(j),
                                   state |-> "queued", startedAt |-> 0 - 1])
    /\ UNCHANGED lmCfg
    /\ UNCHANGED <<batchVars, workerVars, trackerVars, producerVars,
                   retryVars, bucketVars, closeVars, drainVars,
                   unhandled, tailVars>>

\* Bottleneck starts the oldest queued task of a limiter
TaskStarts(k) ==
    /\ k \in DOMAIN lmTasks
    /\ lmTasks[k].state = "queued"
    /\ LET l == lmTasks[k].limiter
           o == BottleneckOptions(lmCfg.maxRequests, lmCfg.perMilliseconds)
       IN  /\ \A h \in 1..(k - 1) :
                 lmTasks[h].limiter = l => lmTasks[h].state # "queued"
           /\ Cardinality({h \in DOMAIN lmTasks :
                              /\ lmTasks[h].limiter = l
                              /\ lmTasks[h].state = "running"})
                 < o.maxConcurrent
           /\ \A h \in DOMAIN lmTasks :
                 lmTasks[h].limiter = l /\ lmTasks[h].state # "queued" =>
                    (mono - lmTasks[h].startedAt) * o.minTimeDen
                        >= o.minTimeNum
    /\ lmTasks' = [lmTasks EXCEPT ![k].state = "running",
                                  ![k].startedAt = mono]
    /\ UNCHANGED lmCfg
    /\ UNCHANGED <<batchVars, workerVars, trackerVars, producerVars,
                   retryVars, bucketVars, closeVars, drainVars,
                   unhandled, tailVars>>

\* The scheduled function settles
TaskSettles(k) ==
    /\ k \in DOMAIN lmTasks
    /\ lmTasks[k].state = "running"
    /\ lmTasks' = [lmTasks EXCEPT ![k].state = "done"]
    /\ UNCHANGED lmCfg
    /\ UNCHANGED <<batchVars, workerVars, trackerVars, producerVars,
                   retryVars, bucketVars, closeVars, drainVars,
                   unhandled, tailVars>>

\* ------------------------------------------------------------------------
\* Starting a worker (WorkerManager constructor lines 39-57,
\* startWorkerServer part_015 lines 80-88 and 146-149) and close()
\* (WorkerManager.ts lines 302-330)
\* A redisConnection value is connection options or a live Redis instance;
\* an instance carries who created it and its status.
\* ------------------------------------------------------------------------
RedisOptions == [kind |-> "options", createdBy |-> "nobody", status |-> "none"]

RedisInstance(by, status) ==
    [kind |-> "instance", createdBy |-> by, status |-> status]

\* ensureRedisInstance(connection) (RedisHandler.ts): an instance is
\* returned as it is, options make a new instance
EnsureRedisInstance(connection, by) ==
    IF connection.kind = "instance" THEN connection
    ELSE RedisInstance(by, "connecting")

\* The redisConnection the WorkerManager constructor receives
ConfigRedisConnection ==
    IF clInput.via = "startWorkerServer"
    THEN EnsureRedisInstance(clInput.redisConnection, "startWorkerServer")
    ELSE clInput.redisConnection

\* new WorkerManager(config), directly or through startWorkerServer
StartWorker ==
    /\ clPc = "new"
    /\ ownsRedisConnection' = ~(ConfigRedisConnection.kind = "instance")
    /\ redisInstance' = EnsureRedisInstance(ConfigRedisConnection, "WorkerManager")
    /\ clPc' = "running"
    /\ UNCHANGED <<clInput, clActive, closeLog>>
    /\ UNCHANGED <<batchVars, workerVars, trackerVars, producerVars,
                   retryVars, bucketVars, limiterVars, drainVars,
                   unhandled, tailVars>>

\* The connection of the handle comes up or drops
RedisStatusChanges(st) ==
    /\ clPc \in {"running", "closingWorker", "closingQueue"}
    /\ redisInstance.status \in {"connecting", "ready", "reconnecting"}
    /\ st # redisInstance.status
    /\ redisInstance' = [redisInstance EXCEPT !.status = st]
    /\ UNCHANGED <<clInput, clPc, ownsRedisConnection, clActive, closeLog>>
    /\ UNCHANGED <<batchVars, workerVars, trackerVars, producerVars,
                   retryVars, bucketVars, limiterVars, drainVars,
                   unhandled, tailVars>>

\* The queue worker claims a job; it claims none once close() was called
WorkerClaims ==
    /\ clPc = "running"
    /\ clActive < MaxConcurrency
    /\ clActive' = clActive + 1
    /\ UNCHANGED <<clInput, clPc, redisInstance, ownsRedisConnection, closeLog>>
    /\ UNCHANGED <<batchVars, workerVars, trackerVars, producerVars,
                   retryVars, bucketVars, limiterVars, drainVars,
                   unhandled, tailVars>>

\* A claimed job finishes
WorkerFinishes ==
    /\ clPc \in {"running", "closingWorker"}
    /\ clActive > 0
    /\ clActive' = clActive - 1
    /\ closeLog' = IF clPc = "closingWorker"
                   THEN Append(closeLog, "job finished") ELSE closeLog
    /\ UNCHANGED <<clInput, clPc, redisInstance, ownsRedisConnection>>
    /\ UNCHANGED <<batchVars, workerVars, trackerVars, producerVars,
                   retryVars, bucketVars, limiterVars, drainVars,
                   unhandled, tailVars>>

\* close() is called (lines 302-305)
CloseCalled ==
    /\ clPc = "running"
    /\ clPc' = "closingWorker"
    /\ UNCHANGED <<clInput, redisInstance, ownsRedisConnection, clActive,
                   closeLog>>
    /\ UNCHANGED <<batchVars, workerVars, trackerVars, producerVars,
                   retryVars, bucketVars, limiterVars, drainVars,
                   unhandled, tailVars>>

\* await this.worker.close() settles, once the claimed jobs have finished
\* (line 305); a rejection goes to the catch of line 322
WorkerCloseSettles(ok) ==
    /\ clPc = "closingWorker"
    /\ clActive = 0
    /\ closeLog' = Append(closeLog, IF ok THEN "worker.close" ELSE "error")
    /\ clPc' = IF ok THEN "closingQueue" ELSE "done"
    /\ UNCHANGED <<clInput, redisInstance, ownsRedisConnection, clActive>>
    /\ UNCHANGED <<batchVars, workerVars, trackerVars, producerVars,
                   retryVars, bucketVars, limiterVars, drainVars,
                   unhandled, tailVars>>

\* await this.queue.close() settles (line 307), and the test of lines
\* 310-314 decides whether quit() is called
QueueCloseSettles(ok) ==
    /\ clPc = "closingQueue"
    /\ closeLog' = Append(closeLog, IF ok THEN "queue.close" ELSE "error")
    /\ clPc' = IF ~ok THEN "done"
               ELSE IF /\ ownsRedisConnection
                       /\ redisInstance.status \in {"ready", "connecting"}
                    THEN "quitting"
                    ELSE "done"
    /\ UNCHANGED <<clInput, redisInstance, ownsRedisConnection, clActive>>
    /\ UNCHANGED <<batchVars, workerVars, trackerVars, producerVars,
                   retryVars, bucketVars, limiterVars, drainVars,
                   unhandled, tailVars>>

\* await this.redisInstance.quit() settles (line 315; in
\* dispatchNotifications lines 270-278, where a rejection is caught too)
QuitSettles(ok) ==
    /\ clPc = "quitting"
    /\ closeLog' = Append(closeLog, IF ok THEN "redis.quit" ELSE "error")
    /\ redisInstance' = IF ok THEN [redisInstance EXCEPT !.status = "end"]
                        ELSE redisInstance
    /\ clPc' = "done"
    /\ UNCHANGED <<clInput, ownsRedisConnection, clActive>>
    /\ UNCHANGED <<batchVars, workerVars, trackerVars, producerVars,
                   retryVars, bucketVars, limiterVars, drainVars,
                   unhandled, tailVars>>

\* ------------------------------------------------------------------------
\* dispatchNotifications: the store handle from entry to exit
\* (runBatchNotificationProcessor.ts lines 160-176 and 258-290)
\* clInput carries redisConnection and maxQueriesPerSecond (0 when absent);
\* kind "badInstance" is a live instance whose options ensureRedisInstance
\* rejects (RedisHandler.ts lines 24-33).
\* ------------------------------------------------------------------------
\* Entry: ensureRedisInstance (lines 160-172), which may throw; then the
\* token bucket is constructed when maxQueriesPerSecond is truthy (lines
\* 174-176), and its constructor throws for a rate <= 0 (part_021 lines
\* 27-31); then processInBatches is started (line 184).
DispatchStarts ==
    /\ clPc = "new"
    /\ clInput.via = "dispatchNotifications"
    /\ IF clInput.redisConnection.kind = "badInstance"
       THEN /\ closeLog' = Append(closeLog, "throw: Failed to initialize Redis")
            /\ clPc' = "done"
            /\ UNCHANGED redisInstance
       ELSE /\ redisInstance' = EnsureRedisInstance(clInput.redisConnection,
                                                    "dispatchNotifications")
            /\ IF clInput.maxQueriesPerSecond < 0
               THEN /\ closeLog' = Append(closeLog,
                                          "throw: maxRatePerSecond must be positive")
                    /\ clPc' = "done"
               ELSE /\ clPc' = "running"
                    /\ UNCHANGED closeLog
    /\ UNCHANGED <<clInput, ownsRedisConnection, clActive>>
    /\ UNCHANGED <<batchVars, workerVars, trackerVars, producerVars,
                   retryVars, bucketVars, limiterVars, drainVars,
                   unhandled, tailVars>>

\* await processInBatches(...) settles (lines 184-259) and the finally
\* block tests the handle (lines 260-269)
ProcessInBatchesSettles(ok) ==
    /\ clPc = "running"
    /\ clInput.via = "dispatchNotifications"
    /\ closeLog' = Append(closeLog, IF ok THEN "processInBatches resolved"
                                    ELSE "processInBatches rejected")
    /\ clPc' = IF /\ clInput.redisConnection.kind = "options"
                  /\ redisInstance.status \in {"ready", "connecting"}
               THEN "quitting"
               ELSE "done"
    /\ UNCHANGED <<clInput, redisInstance, ownsRedisConnection, clActive>>
    /\ UNCHANGED <<batchVars, workerVars, trackerVars, producerVars,
                   retryVars, bucketVars, limiterVars, drainVars,
                   unhandled, tailVars>>

\* ------------------------------------------------------------------------
\* The "drained" handler of WorkerManager (WorkerManager.ts lines 169-224)
\* Each "drained" event starts one run of the handler; runs may overlap.
\* ------------------------------------------------------------------------
\* const maxChecks = 10   (line 174)
MaxChecks == 10

\* What getJobCounts("active", "waiting", "delayed") may report
JobCounts ==
    {[active |-> 0, waiting |-> 0, delayed |-> 0],
     [active |-> 1, waiting |-> 0, delayed |-> 0],
     [active |-> 0, waiting |-> 1, delayed |-> 0],
     [active |-> 0, waiting |-> 0, delayed |-> 1]}

\* Variant that does not look at the delayed jobs.
QueueEmptyNoDelayed(counts) == counts.active = 0 /\ counts.waiting = 0

\* counts.active === 0 && counts.waiting === 0 && counts.delayed === 0
\* (lines 182-186)
QueueEmpty(counts) ==
    counts.active = 0 /\ counts.waiting = 0 /\ counts.delayed = 0

\* The queue emits "drained" and the handler starts: checkCount = 0 and the
\* first getJobCounts is issued (lines 169-181)
DrainedEvent ==
    /\ Len(drains) < MaxSignals
    /\ drains' = Append(drains,
          [pc |-> "polling", checkCount |-> 0, polls |-> 0,
           seen |-> [active |-> 1, waiting |-> 0, delayed |-> 0],
           called |-> 0, settled |-> "none"])
    /\ UNCHANGED drOnDrained
    /\ UNCHANGED <<batchVars, workerVars, trackerVars, producerVars,
                   retryVars, bucketVars, limiterVars, closeVars,
                   unhandled, tailVars>>

\* getJobCounts resolves (lines 177-212): on an empty queue onDrained, if
\* set, is called; otherwise checkCount is incremented and the run sleeps
PollReply(h, counts) ==
    /\ h \in DOMAIN drains
    /\ drains[h].pc = "polling"
    /\ drains' = [drains EXCEPT ![h] =
          IF QueueEmpty(counts)
          THEN [@ EXCEPT !.polls = @ + 1, !.seen = counts,
                         !.called = IF drOnDrained THEN @ + 1 ELSE @,
                         !.pc = IF drOnDrained THEN "calling" ELSE "done"]
          ELSE [@ EXCEPT !.polls = @ + 1,
                         !.checkCount = @ + 1, !.pc = "sleeping"]]
    /\ UNCHANGED drOnDrained
    /\ UNCHANGED <<batchVars, workerVars, trackerVars, producerVars,
                   retryVars, bucketVars, limiterVars, closeVars,
                   unhandled, tailVars>>

\* getJobCounts rejects: the catch of lines 218-223 ends the run
PollFails(h) ==
    /\ h \in DOMAIN drains
    /\ drains[h].pc = "polling"
    /\ drains' = [drains EXCEPT ![h].polls = @ + 1,
                                ![h].pc = "done",
                                ![h].settled = "countError"]
    /\ UNCHANGED drOnDrained
    /\ UNCHANGED <<batchVars, workerVars, trackerVars, producerVars,
                   retryVars, bucketVars, limiterVars, closeVars,
                   unhandled, tailVars>>

\* The 1500 ms timer fires (line 212) and the loop condition of line 176 is
\* tested: another getJobCounts, or the warning of lines 214-217
DrainTimerFires(h) ==
    /\ h \in DOMAIN drains
    /\ drains[h].pc = "sleeping"
    /\ drains' = [drains EXCEPT ![h].pc =
          IF drains[h].checkCount < MaxChecks THEN "polling" ELSE "done"]
    /\ UNCHANGED drOnDrained
    /\ UNCHANGED <<batchVars, workerVars, trackerVars, producerVars,
                   retryVars, bucketVars, limiterVars, closeVars,
                   unhandled, tailVars>>

\* await this.config.onDrained(...) settles; a rejection is caught and
\* logged (lines 192-201)
OnDrainedSettles(h, ok) ==
    /\ h \in DOMAIN drains
    /\ drains[h].pc = "calling"
    /\ drains' = [drains EXCEPT ![h].pc = "done",
                                ![h].settled = IF ok THEN "returned"
                                               ELSE "caught"]
    /\ unhandled' = (unhandled
                      \/ ListenerCatch(IF ok THEN "returned" ELSE "threw")
                             = "rejected")
    /\ UNCHANGED drOnDrained
    /\ UNCHANGED <<batchVars, workerVars, trackerVars, producerVars,
                   retryVars, bucketVars, limiterVars, closeVars, tailVars>>

\* ------------------------------------------------------------------------
\* NotifierRegistry (NotifierRegistry.ts lines 33-103)
\* The static Map is kept as the sequence of its entries in insertion order.
\* Notifier instances are numbered from 1.
\* ------------------------------------------------------------------------
ChannelNames == {"email", "sms"}

Notifiers == {1, 2}

\* What a call gave: kind is return or throw
Called(op, name, kind, notifier) ==
    [op |-> op, name |-> name, kind |-> kind, notifier |-> notifier]

\* Variant of Map.set that adds an entry even when the key is present.
MapSetAppend(entries, name, notifier) ==
    Append(entries, [name |-> name, notifier |-> notifier])

\* Map.prototype.set: the value of a present key is replaced in place, an
\* absent key is added at the end
MapSet(entries, name, notifier) ==
    IF \E k \in DOMAIN entries : entries[k].name = name
    THEN [k \in DOMAIN entries |->
             IF entries[k].name = name
             THEN [name |-> name, notifier |-> notifier] ELSE entries[k]]
    ELSE Append(entries, [name |-> name, notifier |-> notifier])

\* Map.prototype.delete
MapDelete(entries, name) ==
    SelectSeq(entries, LAMBDA e : e.name # name)

\* get(channelName) (lines 59-70): the first entry of the key, or the throw
\* of line 66 when there is none
RegistryGet(entries, name) ==
    IF \E k \in DOMAIN entries : entries[k].name = name
    THEN LET k == CHOOSE k \in DOMAIN entries :
                     /\ entries[k].name = name
                     /\ \A h \in 1..(k - 1) : entries[h].name # name
         IN  Called("get", name, "return", entries[k].notifier)
    ELSE Called("get", name, "throw", 0)

\* register(channelName, notifier) (lines 41-51)
Register(name, notifier) ==
    /\ Len(nrLog) < MaxCalls
    /\ nrEntries' = MapSet(nrEntries, name, notifier)
    /\ nrLast' = Called("register", name, "return", notifier)
    /\ nrLog' = Append(nrLog, nrLast')
    /\ UNCHANGED <<batchVars, workerVars, trackerVars, producerVars,
                   retryVars, bucketVars, limiterVars, closeVars, drainVars,
                   unhandled, statsVars, extraVars>>

\* get(channelName) (lines 59-70)
GetNotifier(name) ==
    /\ nrLast' = RegistryGet(nrEntries, name)
    /\ UNCHANGED <<nrEntries, nrLog>>
    /\ UNCHANGED <<batchVars, workerVars, trackerVars, producerVars,
                   retryVars, bucketVars, limiterVars, closeVars, drainVars,
                   unhandled, statsVars, extraVars>>

\* unregister(channelName) (lines 76-86): an absent name is only logged
Unregister(name) ==
    /\ Len(nrLog) < MaxCalls
    /\ nrEntries' = MapDelete(nrEntries, name)
    /\ nrLast' = Called("unregister", name, "return", 0)
    /\ nrLog' = Append(nrLog, nrLast')
    /\ UNCHANGED <<batchVars, workerVars, trackerVars, producerVars,
                   retryVars, bucketVars, limiterVars, closeVars, drainVars,
                   unhandled, statsVars, extraVars>>

\* clear() (lines 99-102)
Clear ==
    /\ Len(nrLog) < MaxCalls
    /\ nrEntries' = <<>>
    /\ nrLast' = Called("clear", None, "return", 0)
    /\ nrLog' = Append(nrLog, nrLast')
    /\ UNCHANGED <<batchVars, workerVars, trackerVars, producerVars,
                   retryVars, bucketVars, limiterVars, closeVars, drainVars,
                   unhandled, statsVars, extraVars>>

\* ------------------------------------------------------------------------
\* getNotificationStats and resetNotificationStats called on a key, between
\* increments by the tracker (ResponseTrackers.ts lines 74-111); either
\* store command may fail
\* ------------------------------------------------------------------------
\* HGETALL reply: every count comes back as a string
Hgetall(h) == [f \in DOMAIN h |-> ToString(h[f])]

\* Variant of the reset that zeroes the fields and keeps the key.
DelKeyZeroes(h, ok) == IF ok THEN [f \in DOMAIN h |-> 0] ELSE h

\* The hash of a key after redis.del(trackingKey) (line 106): gone, or as
\* it was when the command failed
DelKey(h, ok) == IF ok THEN EmptyHash ELSE h

\* One call: what the key held when it was made, whether the store command
\* succeeded, and the value returned
StatsCall(op, stored, ok, result) ==
    [op |-> op, stored |-> stored, ok |-> ok, result |-> result]

\* resetNotificationStats(redis, trackingKey, logger) (lines 95-111): a
\* failed DEL is logged and the call resolves all the same
ResetNotificationStats(ok) ==
    /\ Len(stCalls) < MaxCalls
    /\ statsStore' = [statsStore EXCEPT ![stKey] = DelKey(@, ok)]
    /\ stCalls' = Append(stCalls,
                     StatsCall("reset", statsStore[stKey], ok, EmptyHash))
    /\ UNCHANGED <<stKey, cfg, cancelFlags, registry, jobs>>
    /\ UNCHANGED <<batchVars, trackerVars, producerVars, retryVars,
                   bucketVars, limiterVars, closeVars, drainVars, unhandled,
                   registryVars, extraVars>>

\* getNotificationStats(redis, trackingKey, logger) (lines 74-93): the
\* HGETALL reply, or {} when the command failed
GetNotificationStats(ok) ==
    /\ Len(stCalls) < MaxCalls
    /\ stCalls' = Append(stCalls,
                     StatsCall("get", statsStore[stKey], ok,
                               IF ok THEN Hgetall(statsStore[stKey])
                               ELSE EmptyHash))
    /\ UNCHANGED <<stKey, statsStore, cfg, cancelFlags, registry, jobs>>
    /\ UNCHANGED <<batchVars, trackerVars, producerVars, retryVars,
                   bucketVars, limiterVars, closeVars, drainVars, unhandled,
                   registryVars, extraVars>>

\* The tracker of some job increments a counter of the key
\* (ResponseTrackers.ts lines 31-65)
TrackerIncrements(f) ==
    /\ Len(stCalls) < MaxCalls
    /\ statsStore' = [statsStore EXCEPT ![stKey] = Hincrby(@, f)]
    /\ stCalls' = Append(stCalls,
                     StatsCall("track", statsStore[stKey], TRUE, EmptyHash))
    /\ UNCHANGED <<stKey, cfg, cancelFlags, registry, jobs>>
    /\ UNCHANGED <<batchVars, trackerVars, producerVars, retryVars,
                   bucketVars, limiterVars, closeVars, drainVars, unhandled,
                   registryVars, extraVars>>

\* ------------------------------------------------------------------------
\* trackNotificationResponse called on its own
\* ------------------------------------------------------------------------
TrackNotificationResponse ==
    /\ trPc = "ready"
    /\ statsStore' = [statsStore EXCEPT ![trKey] = TrackedHash(@, trResponse)]
    /\ trPc' = "done"
    /\ UNCHANGED <<trResponse, trKey, trBefore>>
    /\ UNCHANGED <<cfg, cancelFlags, registry, jobs>>
    /\ UNCHANGED <<batchVars, otherVars>>

\* ------------------------------------------------------------------------
\* Initial states and specifications
\* ------------------------------------------------------------------------
BatchIdle ==
    /\ recipients = <<>> /\ meta = <<>> /\ concurrencyOpt = {}
    /\ i = 0 /\ bpc = "idle" /\ results = <<>> /\ tasks = <<>>
    /\ taskState = <<>> /\ sendLog = <<>> /\ outOfOrder = FALSE
    /\ successCount = 0 /\ failureCount = 0 /\ skippedCount = 0
    /\ finalResults = <<>>

TrackerIdle ==
    /\ trResponse = UndefinedResp /\ trKey = None
    /\ trBefore = EmptyHash /\ trPc = "idle"

WorkerIdle ==
    /\ cfg = Config("direct", FALSE, None)
    /\ cancelFlags = [c \in CampaignIds |-> None]
    /\ statsStore = [k \in TrackingKeys |-> EmptyHash]
    /\ registry = RegisteredChannels
    /\ jobs = <<>>

WorkerInit ==
    /\ cfg \in Configs
    /\ cancelFlags \in [CampaignIds -> FlagValues]
    /\ \E h \in PriorHashes : statsStore = [k \in TrackingKeys |-> h]
    /\ registry = RegisteredChannels
    /\ \E d \in Payloads : jobs = [j \in {1} |-> Job(j, d)]

TrackerInit ==
    /\ trResponse \in ResponseInputs
    /\ trKey \in TrackingKeys
    /\ \E h \in PriorHashes :
          /\ statsStore = [k \in TrackingKeys |-> h]
          /\ trBefore = h
    /\ trPc = "ready"
    /\ cfg = Config("direct", FALSE, None)
    /\ cancelFlags = [c \in CampaignIds |-> None]
    /\ registry = RegisteredChannels
    /\ jobs = <<>>

\* The components other than g are not in use
AllIdleBut(g) ==
    /\ unhandled = FALSE
    /\ g # "query" =>
          /\ qLimited = FALSE /\ qCalls = <<>> /\ qPages = 0 /\ qPc = "idle"
    /\ g # "firebase" =>
          /\ fbInitialized = FALSE /\ fbApps = 0 /\ fbLog = <<>>
    /\ g # "payload" =>
          /\ plRecords = <<>> /\ plThrows = {} /\ plPayload = <<>>
          /\ plPc = "idle" /\ plQueue = <<>>
    /\ g # "stats" =>
          /\ stKey = None /\ stCalls = <<>>
    /\ g # "registry" =>
          /\ nrEntries = <<>> /\ nrLog = <<>>
          /\ nrLast = [op |-> "none", name |-> None, kind |-> "none",
                       notifier |-> 0]
    /\ g # "dispatch" =>
          /\ dbTotal = 0 /\ batchSizeOpt = {} /\ enqueueRetriesOpt = {}
          /\ offset = 0 /\ ppc = "idle"
          /\ fetchLog = <<>> /\ handlerLog = <<>>
          /\ activeBatches = <<>> /\ handlers = <<>>
          /\ queue = <<>>
          /\ dispatchResult = Settled("pending", None, 0)
    /\ g # "bucket" =>
          /\ tbRate = 1 /\ tbTokens = 0 /\ tbLast = 0 /\ mono = 0
          /\ wallBack = 0 /\ tbPending = 0 /\ tbAcquired = <<>>
    /\ g # "retry" =>
          /\ rtInput = [fails |-> 0, maxRetries |-> 0, baseDelay |-> 0]
          /\ rtResult = NoRetry
          /\ rtPc = "idle"
    /\ g # "limiter" =>
          /\ lmCfg = [maxRequests |-> 1, perMilliseconds |-> 1000]
          /\ lmTasks = <<>>
    /\ g # "close" =>
          /\ clInput = [via |-> "constructor", redisConnection |-> RedisOptions]
          /\ clPc = "idle"
          /\ redisInstance = RedisOptions
          /\ ownsRedisConnection = FALSE
          /\ clActive = 0
          /\ closeLog = <<>>
    /\ g # "drain" =>
          /\ drOnDrained = FALSE
          /\ drains = <<>>

Init == WorkerInit /\ BatchIdle /\ TrackerIdle /\ AllIdleBut("worker")

Next ==
    \/ \E j \in JobIds : ClaimJob(j)
    \/ \E j \in JobIds : CancelGetReply(j)
    \/ \E j \in JobIds : CancelGetFails(j)
    \/ \E j \in JobIds :
          \E r \in AdapterReturns(jobs[j].data.userIds.items) \cup AdapterThrows :
              SendSettles(j, r)
    \/ \E j \in JobIds : TrackExec(j)
    \/ \E j \in JobIds : CompletedEvent(j)
    \/ \E j \in JobIds : OnCompleteCallback(j)
    \/ \E j \in JobIds : ResetStats(j)
    \/ \E c \in CampaignIds : \E v \in FlagValues : SetCancelFlag(c, v)
    \/ \E c \in CampaignIds : DelCancelFlag(c)

Spec == Init /\ [][Next]_vars

\* The worker on a store that may fail any stats command
NextStoreFaults ==
    \/ Next
    \/ \E j \in JobIds : \E applied \in BOOLEAN : TrackExecFails(j, applied)
    \/ \E j \in JobIds : GetStatsFails(j)
    \/ \E j \in JobIds : ResetStatsFails(j)

SpecStoreFaults == Init /\ [][NextStoreFaults]_vars

\* The worker on a queue that retries failed jobs
NextAttempts ==
    \/ Next
    \/ \E j \in JobIds : QueueRetries(j)

SpecAttempts == Init /\ [][NextAttempts]_vars

TrackerNext == TrackNotificationResponse

InitTracker == TrackerInit /\ BatchIdle /\ AllIdleBut("tracker")

SpecTracker == InitTracker /\ [][TrackerNext]_vars

BatchNext ==
    \/ SkipInvalidRecipient
    \/ SkipMissingMeta
    \/ SubmitTask
    \/ \E idx \in 1..N : \E o \in SendOutcomes : TaskSettle(idx, o)
    \/ AwaitBatchDone
    \/ LoopExit
    \/ AwaitFinalDone
    \/ Finalize

InitBatch == BatchInit /\ WorkerIdle /\ TrackerIdle /\ AllIdleBut("batch")

SpecBatch == InitBatch /\ [][BatchNext]_vars

\* process() with a limiter that may reject a job
BatchRejectNext ==
    \/ SkipInvalidRecipient
    \/ SkipMissingMeta
    \/ SubmitTask
    \/ \E idx \in 1..N : \E o \in SendOutcomes : TaskSettle(idx, o)
    \/ \E idx \in 1..N : TaskRejected(idx)
    \/ \E idx \in 1..N : \E o \in SendOutcomes : TaskSettlesAfterReturn(idx, o)
    \/ AwaitBatchDone
    \/ LoopExit
    \/ AwaitFinalDone
    \/ Finalize

SpecBatchReject == InitBatch /\ [][BatchRejectNext]_vars

\* retryWithBackoff called with every combination of an operation that fails
\* a number of times, maxRetries and baseDelay
InitRetry ==
    /\ rtInput \in [fails : (0..MaxFailures) \cup {AlwaysFails},
                     maxRetries : (-1..MaxRetries) \cup {DefaultMaxRetries},
                     baseDelay : {1, DefaultEnqueueBaseDelay, DefaultBaseDelay}]
    /\ rtResult = NoRetry
    /\ rtPc = "ready"
    /\ BatchIdle /\ WorkerIdle /\ TrackerIdle /\ AllIdleBut("retry")

SpecRetry == InitRetry /\ [][CallRetryWithBackoff]_vars

DispatchNext ==
    \/ \E n \in 0..MaxRecords : \E f \in {0, 1, AlwaysFails} : Fetch(n, f)
    \/ \E b \in 1..MaxRecords :
          \E f \in {0, 1, MaxFailures, AlwaysFails} : HandlerSettle(b, f)
    \/ AwaitSetDone
    \/ AwaitRemaining

\* dispatchNotifications called on a database of up to MaxRecords records
InitDispatch ==
    /\ dbTotal \in 0..MaxRecords
    /\ batchSizeOpt \in {{}, {1}, {2}}
    /\ enqueueRetriesOpt \in {{}} \cup { {n} : n \in 0..MaxRetries }
    /\ offset = 0
    /\ ppc = "fetch"
    /\ fetchLog = <<>> /\ handlerLog = <<>>
    /\ activeBatches = <<>> /\ handlers = <<>>
    /\ queue = <<>>
    /\ dispatchResult = Settled("pending", None, 0)
    /\ BatchIdle /\ WorkerIdle /\ TrackerIdle /\ AllIdleBut("dispatch")

SpecDispatch == InitDispatch /\ [][DispatchNext]_vars

\* The same call when every dbQuery call and every queue.add call settles
\* and every continuation of a settled promise is run
DispatchFairness ==
    /\ WF_vars(\E n \in 0..MaxRecords : \E f \in {0, 1, AlwaysFails} : Fetch(n, f))
    /\ WF_vars(\E b \in 1..MaxRecords :
                  \E f \in {0, 1, MaxFailures, AlwaysFails} : HandlerSettle(b, f))
    /\ WF_vars(AwaitSetDone)
    /\ WF_vars(AwaitRemaining)

\* dispatchNotifications called with an explicit batch size, and with the
\* default enqueue retries or none
InitDispatchFair ==
    /\ dbTotal \in 0..MaxRecords
    /\ batchSizeOpt \in {{1}, {2}}
    /\ enqueueRetriesOpt \in {{}, {0}}
    /\ offset = 0
    /\ ppc = "fetch"
    /\ fetchLog = <<>> /\ handlerLog = <<>>
    /\ activeBatches = <<>> /\ handlers = <<>>
    /\ queue = <<>>
    /\ dispatchResult = Settled("pending", None, 0)
    /\ BatchIdle /\ WorkerIdle /\ TrackerIdle /\ AllIdleBut("dispatch")

SpecDispatchFair == InitDispatchFair /\ [][DispatchNext]_vars /\ DispatchFairness

\* dispatchNotifications on a database with more pages than one concurrent
\* set holds: MaxConcurrentBatches full pages and at least one record more
DispatchSetsNext ==
    \/ \E n \in 0..2 : \E f \in {0, AlwaysFails} : Fetch(n, f)
    \/ \E b \in 1..(MaxConcurrentBatches + MaxRecords) :
          \E f \in {0, AlwaysFails} : HandlerSettle(b, f)
    \/ AwaitSetDone
    \/ AwaitRemaining

InitDispatchSets ==
    /\ batchSizeOpt \in {{1}, {2}}
    /\ \E more \in 1..MaxRecords :
          dbTotal = MaxConcurrentBatches * BatchSize + more
    /\ enqueueRetriesOpt \in {{}, {0}}
    /\ offset = 0
    /\ ppc = "fetch"
    /\ fetchLog = <<>> /\ handlerLog = <<>>
    /\ activeBatches = <<>> /\ handlers = <<>>
    /\ queue = <<>>
    /\ dispatchResult = Settled("pending", None, 0)
    /\ BatchIdle /\ WorkerIdle /\ TrackerIdle /\ AllIdleBut("dispatch")

SpecDispatchSets == InitDispatchSets /\ [][DispatchSetsNext]_vars

BucketNext ==
    \/ Acquire
    \/ WaiterWakes
    \/ ClockAdvances
    \/ ClockSetBack

\* new TokenBucketRateLimiter(maxRatePerSecond) (lines 26-35)
InitBucket ==
    /\ tbRate \in {1, 2, 5}
    /\ tbTokens = Capacity
    /\ tbLast = 0
    /\ mono = 0 /\ wallBack = 0
    /\ tbPending = 0 /\ tbAcquired = <<>>
    /\ BatchIdle /\ WorkerIdle /\ TrackerIdle /\ AllIdleBut("bucket")

SpecBucket == InitBucket /\ [][BucketNext]_vars

LimiterNext ==
    \/ \E j \in 1..MaxConcurrency : Schedule(j)
    \/ \E k \in 1..MaxTasks : TaskStarts(k)
    \/ \E k \in 1..MaxTasks : TaskSettles(k)
    \/ ClockAdvances

\* new RateLimiter(maxRequests, perMilliseconds) in an adapter's constructor
InitLimiter ==
    /\ \E n \in 1..(MaxConcurrency + 1), p \in {500, 1000} :
          lmCfg = [maxRequests |-> n, perMilliseconds |-> p]
    /\ lmTasks = <<>>
    /\ BatchIdle /\ WorkerIdle /\ TrackerIdle /\ AllIdleBut("limiter")

SpecLimiter == InitLimiter /\ [][LimiterNext]_vars

CloseNext ==
    \/ StartWorker
    \/ \E st \in {"ready", "reconnecting"} : RedisStatusChanges(st)
    \/ WorkerClaims
    \/ WorkerFinishes
    \/ CloseCalled
    \/ \E ok \in BOOLEAN : WorkerCloseSettles(ok)
    \/ \E ok \in BOOLEAN : QueueCloseSettles(ok)
    \/ \E ok \in BOOLEAN : QuitSettles(ok)

\* A worker about to be started, from connection options or from a live
\* instance of the caller
InitClose ==
    /\ \E via \in {"constructor", "startWorkerServer"},
          c \in {RedisOptions, RedisInstance("caller", "connecting"),
                 RedisInstance("caller", "ready")} :
          clInput = [via |-> via, redisConnection |-> c]
    /\ clPc = "new"
    /\ redisInstance = RedisOptions
    /\ ownsRedisConnection = FALSE
    /\ clActive = 0
    /\ closeLog = <<>>
    /\ BatchIdle /\ WorkerIdle /\ TrackerIdle /\ AllIdleBut("close")

SpecClose == InitClose /\ [][CloseNext]_vars

DrainNext ==
    \/ DrainedEvent
    \/ \E h \in 1..MaxSignals : \E counts \in JobCounts : PollReply(h, counts)
    \/ \E h \in 1..MaxSignals : PollFails(h)
    \/ \E h \in 1..MaxSignals : DrainTimerFires(h)
    \/ \E h \in 1..MaxSignals : \E ok \in BOOLEAN : OnDrainedSettles(h, ok)

\* A running worker, with or without an onDrained callback
InitDrain ==
    /\ drOnDrained \in BOOLEAN
    /\ drains = <<>>
    /\ BatchIdle /\ WorkerIdle /\ TrackerIdle /\ AllIdleBut("drain")

SpecDrain == InitDrain /\ [][DrainNext]_vars

StatsNext ==
    \/ \E ok \in BOOLEAN : ResetNotificationStats(ok)
    \/ \E ok \in BOOLEAN : GetNotificationStats(ok)
    \/ \E f \in {"success", "error:timeout"} : TrackerIncrements(f)

\* A tracking key with any prior contents
InitStats ==
    /\ stKey \in TrackingKeys
    /\ stCalls = <<>>
    /\ cfg = Config("direct", FALSE, None)
    /\ cancelFlags = [c \in CampaignIds |-> None]
    /\ statsStore \in [TrackingKeys -> PriorHashes]
    /\ registry = RegisteredChannels
    /\ jobs = <<>>
    /\ BatchIdle /\ TrackerIdle /\ AllIdleBut("stats")

SpecStats == InitStats /\ [][StatsNext]_vars

\* ------------------------------------------------------------------------
\* The batch handler of dispatchNotifications on one page of records
\* (runBatchNotificationProcessor.ts lines 195-252)
\* ------------------------------------------------------------------------
RecordIds == 1..MaxLen

\* options.mapRecordToUserId(record)
MapRecordToUserId(rec) == "user-" \o ToString(rec)

\* options.meta(record) when it returns
MetaOf(rec) == [kind |-> "meta", to |-> MapRecordToUserId(rec)]

\* {}
EmptyMap == [kind |-> "empty", to |-> None]

\* Variant that leaves out the records whose meta failed.
BuildMetaDropping(recs, throws) ==
    LET kept == SelectSeq(recs, LAMBDA r : r \notin throws)
    IN  [k \in DOMAIN kept |-> MetaOf(kept[k])]

\* records.map((record) => { try { return options.meta(record) }
\*                           catch { return {} } })   (lines 209-219)
BuildMeta(recs, throws) ==
    [k \in DOMAIN recs |->
        IF recs[k] \in throws THEN EmptyMap ELSE MetaOf(recs[k])]

\* Lines 196-223: an empty page returns at once; otherwise jobPayload is
\* built and the handler goes on to enqueue it.
HandlerBuildsPayload ==
    /\ plPc = "ready"
    /\ IF Len(plRecords) = 0
       THEN plPc' = "done" /\ UNCHANGED plPayload
       ELSE /\ plPayload' =
                 [userIds |-> [k \in DOMAIN plRecords |->
                                  MapRecordToUserId(plRecords[k])],
                  meta |-> BuildMeta(plRecords, plThrows)]
            /\ plPc' = "enqueue"
    /\ UNCHANGED <<plRecords, plThrows, plQueue>>
    /\ UNCHANGED <<coreVars, firebaseVars, queryVars>>

\* Lines 232-251: retryWithBackoff over QueueManager.enqueueJob returns
\* after a queue.add that succeeded (QueueManager.ts line 44), or throws.
EnqueueJobSettles(ok) ==
    /\ plPc = "enqueue"
    /\ plQueue' = IF ok THEN Append(plQueue, plPayload) ELSE plQueue
    /\ plPc' = IF ok THEN "done" ELSE "rejected"
    /\ UNCHANGED <<plRecords, plThrows, plPayload>>
    /\ UNCHANGED <<coreVars, firebaseVars, queryVars>>

PayloadNext ==
    \/ HandlerBuildsPayload
    \/ \E ok \in BOOLEAN : EnqueueJobSettles(ok)

InitPayload ==
    /\ plRecords \in SeqsUpTo(RecordIds, MaxLen)
    /\ plThrows \in SUBSET RecordIds
    /\ plPayload = <<>>
    /\ plPc = "ready"
    /\ plQueue = <<>>
    /\ BatchIdle /\ WorkerIdle /\ TrackerIdle /\ AllIdleBut("payload")

SpecPayload == InitPayload /\ [][PayloadNext]_vars

\* ------------------------------------------------------------------------
\* FirebaseNotifier.initFirebase (FirebaseNotifier.ts lines 59-142)
\* ------------------------------------------------------------------------
\* credentialInfo: a ServiceAccount object with or without its three
\* required properties, a path to a readable or unreadable key file, or a
\* value that is neither a string nor an object
Credentials ==
    {"object", "objectMissingProperty", "path", "pathUnreadable", "neither"}

\* Lines 92-124: the try block loads the credential without throwing
CredentialLoads(cred) == cred \in {"object", "path"}

\* Variant that marks the process initialized whatever the outcome.
MarkInitializedAlways(outcome) == TRUE

\* FirebaseNotifier.initialized = true   (lines 82 and 130)
MarkInitialized(outcome) == outcome \in {"initialized", "attachedExternal"}

\* What one run of initFirebase does, for a fresh instance (this.app is
\* undefined), given whether admin.initializeApp would succeed
InitOutcome(cred, initOk) ==
    IF fbInitialized
    THEN IF fbApps > 0 THEN "attached" ELSE "noDefaultApp"
    ELSE IF fbApps > 0 THEN "attachedExternal"
    ELSE IF ~CredentialLoads(cred) THEN "credentialError"
    ELSE IF initOk THEN "initialized" ELSE "initError"

\* new FirebaseNotifier(credentialInfo) (lines 32-52, 59-142)
Construct(cred, initOk) ==
    /\ Len(fbLog) < MaxCalls
    /\ LET outcome == InitOutcome(cred, initOk)
       IN  /\ fbInitialized' = (fbInitialized \/ MarkInitialized(outcome))
           /\ fbApps' = IF outcome = "initialized" THEN fbApps + 1 ELSE fbApps
           /\ fbLog' = Append(fbLog,
                    [cred |-> cred, outcome |-> outcome,
                     calledInit |-> outcome \in {"initialized", "initError"},
                     flagBefore |-> fbInitialized, appsBefore |-> fbApps])
    /\ UNCHANGED <<coreVars, payloadVars, queryVars>>

\* Another part of the application calls admin.initializeApp() itself.
ExternalInitialize ==
    /\ fbApps = 0
    /\ fbApps' = 1
    /\ UNCHANGED <<fbInitialized, fbLog>>
    /\ UNCHANGED <<coreVars, payloadVars, queryVars>>

FirebaseNext ==
    \/ \E cred \in Credentials : \E initOk \in BOOLEAN : Construct(cred, initOk)
    \/ ExternalInitialize

InitFirebase ==
    /\ fbInitialized = FALSE
    /\ fbApps = 0
    /\ fbLog = <<>>
    /\ BatchIdle /\ WorkerIdle /\ TrackerIdle /\ AllIdleBut("firebase")

SpecFirebase == InitFirebase /\ [][FirebaseNext]_vars

\* ------------------------------------------------------------------------
\* The processBatch closure handed to processInBatches
\* (runBatchNotificationProcessor.ts lines 174-194)
\* ------------------------------------------------------------------------
\* One call made on behalf of page `page`: rateLimiter.acquire(), or
\* options.dbQuery(offset, limit) at attempt `attempt` of its retry loop
QueryCall(call, page, attempt) == [call |-> call, page |-> page, attempt |-> attempt]

\* The dbQuery calls of one retryWithBackoff run
DbQueryCalls(page, r) ==
    LET a == SelectSeq(r.trace, LAMBDA e : e.ev = "attempt")
    IN  [k \in 1..Len(a) |-> QueryCall("dbQuery", page, k - 1)]

\* Variant that acquires a token before every attempt.
ProcessBatchCallsPerAttempt(limited, page, r) ==
    LET q == DbQueryCalls(page, r)
    IN  IF limited
        THEN [k \in 1..(2 * Len(q)) |->
                IF k % 2 = 1 THEN QueryCall("acquire", page, (k - 1) \div 2)
                ELSE q[k \div 2]]
        ELSE q

\* Lines 185-194: if (rateLimiter) await rateLimiter.acquire(); then
\* retryWithBackoff(() => options.dbQuery(offset, limit))
ProcessBatchCalls(limited, page, r) ==
    (IF limited THEN << QueryCall("acquire", page, 0) >> ELSE <<>>)
        \o DbQueryCalls(page, r)

\* processInBatches calls processBatch for the next page (part_022 lines
\* 28-51): the query returns n records after `fails` failed attempts, or
\* its retries are exhausted; an empty page or an error ends the loop.
ProcessBatch(n, fails) ==
    /\ qPc = "fetch"
    /\ n > 0 => qPages < MaxRecords
    /\ LET r == RetryWithBackoff(fails, DefaultMaxRetries, DefaultBaseDelay)
       IN  /\ r.result # "return" => n = 0
           /\ qCalls' = qCalls \o ProcessBatchCalls(qLimited, qPages + 1, r)
           /\ qPages' = qPages + 1
           /\ qPc' = IF n = 0 THEN "done" ELSE "fetch"
    /\ UNCHANGED qLimited
    /\ UNCHANGED <<coreVars, payloadVars, firebaseVars>>

QueryNext ==
    \E n \in 0..1 : \E f \in {0, 1, MaxFailures, AlwaysFails} : ProcessBatch(n, f)

InitQuery ==
    /\ qLimited \in BOOLEAN
    /\ qCalls = <<>>
    /\ qPages = 0
    /\ qPc = "fetch"
    /\ BatchIdle /\ WorkerIdle /\ TrackerIdle /\ AllIdleBut("query")

SpecQuery == InitQuery /\ [][QueryNext]_vars

RegistryNext ==
    \/ \E name \in ChannelNames, notifier \in Notifiers : Register(name, notifier)
    \/ \E name \in ChannelNames : GetNotifier(name)
    \/ \E name \in ChannelNames : Unregister(name)
    \/ Clear

\* private static registry = new Map()   (line 34)
InitRegistry ==
    /\ nrEntries = <<>> /\ nrLog = <<>>
    /\ nrLast = Called("none", None, "none", 0)
    /\ BatchIdle /\ WorkerIdle /\ TrackerIdle /\ AllIdleBut("registry")

SpecRegistry == InitRegistry /\ [][RegistryNext]_vars

\* The worker with its three listeners: two jobs on a worker of
\* concurrency 1 started by startWorkerServer with onStart, onComplete and
\* onDrained callbacks; a job is claimed once the processor is through
\* with the jobs before it, and one "drained" event is followed.
CallbacksNext ==
    \/ \E j \in JobIds :
          /\ \A h \in 1..(j - 1) :
                jobs[h].pc \notin {"waiting", "cancelGet", "sending",
                                   "trackResult", "trackError"}
          /\ ClaimJob(j)
    \/ \E j \in JobIds : ActiveEvent(j)
    \/ \E j \in JobIds :
          \E r \in AdapterReturns(jobs[j].data.userIds.items) \cup AdapterThrows :
              SendSettles(j, r)
    \/ \E j \in JobIds : TrackExec(j)
    \/ \E j \in JobIds : CompletedEvent(j)
    \/ \E j \in JobIds : OnCompleteCallback(j)
    \/ \E j \in JobIds : ResetStats(j)
    \/ drains = <<>> /\ DrainedEvent
    \/ \E counts \in JobCounts : PollReply(1, counts)
    \/ PollFails(1)
    \/ DrainTimerFires(1)
    \/ \E ok \in BOOLEAN : OnDrainedSettles(1, ok)

InitCallbacks ==
    /\ cfg = Config("server", TRUE, None)
    /\ cancelFlags = [c \in CampaignIds |-> None]
    /\ statsStore = [k \in TrackingKeys |-> EmptyHash]
    /\ registry = RegisteredChannels
    /\ jobs = [j \in 1..2 |->
                  Job(j, Payload(None, UserIds(TRUE, <<"u1">>), "email",
                                 "true", None))]
    /\ drOnDrained = TRUE
    /\ drains = <<>>
    /\ BatchIdle /\ TrackerIdle /\ AllIdleBut("drain")

SpecCallbacks == InitCallbacks /\ [][CallbacksNext]_vars

\* A worker started by startWorkerServer with concurrency 2 on two tracked
\* jobs, which carry the same tracking key or different ones
SharedKeyNext ==
    \/ \E j \in JobIds : ClaimJob(j)
    \/ \E j \in JobIds :
          \E r \in AdapterReturns(jobs[j].data.userIds.items) \cup AdapterThrows :
              SendSettles(j, r)
    \/ \E j \in JobIds : TrackExec(j)
    \/ \E j \in JobIds : CompletedEvent(j)
    \/ \E j \in JobIds : OnCompleteCallback(j)
    \/ \E j \in JobIds : ResetStats(j)

InitSharedKey ==
    /\ cfg \in { Config("server", r, None) : r \in BOOLEAN }
    /\ cancelFlags = [c \in CampaignIds |-> None]
    /\ \E h \in PriorHashes : statsStore = [k \in TrackingKeys |-> h]
    /\ registry = RegisteredChannels
    /\ \E keys \in [1..2 -> {None, "tk1"}] :
          jobs = [j \in 1..2 |->
                    Job(j, Payload(None, UserIds(TRUE, <<"u1">>), "email",
                                   "true", keys[j]))]
    /\ BatchIdle /\ TrackerIdle /\ AllIdleBut("worker")

SpecSharedKey == InitSharedKey /\ [][SharedKeyNext]_vars

DispatchExitNext ==
    \/ DispatchStarts
    \/ \E st \in {"ready", "reconnecting"} : RedisStatusChanges(st)
    \/ \E ok \in BOOLEAN : ProcessInBatchesSettles(ok)
    \/ \E ok \in BOOLEAN : QuitSettles(ok)

\* dispatchNotifications(options) about to be called
InitDispatchExit ==
    /\ \E c \in {RedisOptions, RedisInstance("caller", "connecting"),
                 RedisInstance("caller", "ready"),
                 [RedisInstance("caller", "ready") EXCEPT !.kind = "badInstance"]},
          q \in {0 - 1, 0, 1, 5} :
          clInput = [via |-> "dispatchNotifications", redisConnection |-> c,
                     maxQueriesPerSecond |-> q]
    /\ clPc = "new"
    /\ redisInstance = RedisOptions
    /\ ownsRedisConnection = FALSE
    /\ clActive = 0
    /\ closeLog = <<>>
    /\ BatchIdle /\ WorkerIdle /\ TrackerIdle /\ AllIdleBut("close")

SpecDispatchExit == InitDispatchExit /\ [][DispatchExitNext]_vars

\* ========================================================================
\* Claims about batchSender.process (checked under SpecBatch)
\* ========================================================================
Pending == { k \in 1..N : taskState[k] = "pending" }

Submitted(k) == ~IsFalsy(recipients[k]) /\ meta[k] # None

\* C1: whatever the order in which the per-recipient sends complete, the
\* array process() resolves with has exactly one entry per recipient, and
\* entry k is the Result produced for recipients[k]: the validation Result of
\* a skipped recipient, or the Result its own send task stored, with that
\* recipient echoed; nothing is reordered, merged or dropped.
C1_ResultsIndexAligned ==
    bpc = "done" =>
        /\ Len(finalResults) = Len(recipients)
        /\ \A k \in 1..Len(recipients) :
              IF Submitted(k)
              THEN /\ sendLog[k] # NotRun
                   /\ finalResults[k] = StoredResult(k, sendLog[k])
                   /\ finalResults[k].recipient = Str(recipients[k])
                   /\ sendLog[k].kind = "return" /\ sendLog[k].status = "success"
                        => finalResults[k].response = "Sent " \o meta[k]
              ELSE /\ sendLog[k] = NotRun
                   /\ finalResults[k].status = "error"
                   /\ finalResults[k].error \in
                        {"Invalid recipient data", "Missing meta for recipient"}

\* C1 witness: a finished call over three recipients, two of them equal, in
\* which a later send completed before an earlier one.
C1_Witness ==
    /\ bpc = "done"
    /\ Len(recipients) = 3
    /\ outOfOrder
    /\ \E j, k \in 1..3 : j # k /\ recipients[j] = recipients[k]
                          /\ Submitted(j) /\ Submitted(k)
                          /\ finalResults[j] # finalResults[k]

\* C2 (as amended): when sendSingle throws for recipient k, slot k is
\* Result{status=error, recipient=String(recipients[k]),
\* error=INTERNAL_SEND_ERROR} whose response is the exception's message if
\* the thrown value is an Error and the fixed text "Unknown error during
\* sendSingle execution" otherwise; process() still resolves, and every
\* recipient whose sendSingle returned keeps the status it returned.
C2_ThrowBecomesInternalSendError ==
    bpc = "done" =>
        \A k \in 1..Len(recipients) :
            /\ sendLog[k].kind = "throwError" =>
                  finalResults[k] =
                      Result("error", Str(recipients[k]), "INTERNAL_SEND_ERROR",
                             sendLog[k].msg)
            /\ sendLog[k].kind = "throwOther" =>
                  finalResults[k] =
                      Result("error", Str(recipients[k]), "INTERNAL_SEND_ERROR",
                             "Unknown error during sendSingle execution")
            /\ sendLog[k].kind = "return" =>
                  /\ finalResults[k].status = sendLog[k].status
                  /\ finalResults[k].error = sendLog[k].error

\* C2 witness: a finished call in which one send threw an Error, another
\* threw a non-Error value and a third returned success.
C2_Witness ==
    /\ bpc = "done"
    /\ \E j, k, l \in 1..Len(recipients) :
          /\ sendLog[j].kind = "throwError"
          /\ sendLog[k].kind = "throwOther"
          /\ sendLog[l].kind = "return" /\ finalResults[l].status = "success"

\* C2 as originally stated: the response of the slot of a throwing
\* sendSingle is always the message of the exception.
C2_Original ==
    bpc = "done" =>
        \A k \in 1..Len(recipients) :
            sendLog[k].kind \in {"throwError", "throwOther"} =>
                finalResults[k] =
                    Result("error", Str(recipients[k]), "INTERNAL_SEND_ERROR",
                           sendLog[k].msg)

\* C3: the number of submitted but unsettled send tasks never exceeds
\* `concurrency`, and while it equals `concurrency` no further task is
\* submitted: a step taken with the cap reached adds no pending task.
C3_ConcurrencyCap ==
    [][ /\ Cardinality(Pending') <= Concurrency'
        /\ Cardinality(Pending) >= Concurrency => Pending' \subseteq Pending
      ]_vars

\* C3 witness: the cap is reached (as many tasks pending as `concurrency`)
\* while recipients are still waiting to be submitted.
C3_Witness ==
    /\ bpc = "awaitBatch"
    /\ Cardinality(Pending) = Concurrency
    /\ i < Len(recipients)
    /\ \E k \in (i + 1)..Len(recipients) : Submitted(k)

\* ========================================================================
\* Claims about WorkerManager.jobProcessor (checked under Spec)
\* ========================================================================
Completed(job) == job.pc \in {"returned", "onComplete", "resetting", "finished"}

PastCancelCheck(job) == job.pc \notin {"waiting", "cancelGet"}

HincrbyOps(job) ==
    { k \in 1..Len(job.storeOps) : job.storeOps[k].op = "hincrby" }

\* The commands of the job that changed the contents of the store
ChangingOps(job) ==
    { k \in 1..Len(job.storeOps) :
        \/ job.storeOps[k].op = "hincrby"
        \/ job.storeOps[k].op = "del" /\ job.storeOps[k].removed # EmptyHash }

Sendable(job) ==
    job.data.userIds.isArray /\ job.data.channel \in registry

\* C4: for a job carrying a campaign id, if the value read at
\* worker:cancel:campaign:<id> is the literal "true", the registry is never
\* consulted, notifier.send is never called and no stats increment is
\* written for the job; after a read of any other value (absent, "false",
\* another string) the job is not skipped: it is validated, the registry is
\* consulted for an array userIds and send is called for a registered channel.
C4_CancelledJobSkipped ==
    \A j \in JobIds :
        LET job == jobs[j]
        IN  /\ job.cancelRead = "true" =>
                  /\ job.registryCalls = 0
                  /\ job.sendCalls = <<>>
                  /\ job.trackCalls = <<>>
                  /\ HincrbyOps(job) = {}
            /\ job.cancelRead \in FlagValues \ {"true"} =>
                  /\ PastCancelCheck(job)
                  /\ ~job.data.userIds.isArray => job.caught = InvalidUserIdsError(j)
                  /\ job.data.userIds.isArray => job.registryCalls = 1
                  /\ Sendable(job) => job.sendCalls = <<job.data.userIds.items>>

\* C4 witness: a tracked job with recipients and a registered channel was
\* skipped because its flag read "true", and has gone through completion.
C4_Witness ==
    \E j \in JobIds :
        /\ jobs[j].cancelRead = "true"
        /\ jobs[j].pc = "finished"
        /\ Sendable(jobs[j]) /\ jobs[j].data.userIds.items # <<>>
        /\ TrackOn(jobs[j].data)

\* C5 (as amended): processing a job of a cancelled campaign makes the
\* processor return without error, so the job completes and is not retried;
\* the processor writes nothing to the stats hash of the job's tracking key,
\* and the completed-event handling only reads it, except that with
\* resetStatsAfterCompletion enabled it deletes that key after the callback,
\* as it does for every completed job.
C5_CancelledJobCompletes ==
    \A j \in JobIds :
        LET job == jobs[j]
            key == ResolvedTrackingKey(job.data)
        IN  job.cancelRead = "true" =>
                /\ Completed(job)
                /\ job.rejected = NoError /\ job.caught = NoError
                /\ HincrbyOps(job) = {}
                /\ job.storeOps # <<>> =>
                      /\ cfg.start = "server" /\ cfg.resetStatsAfterCompletion
                      /\ job.pc = "finished"
                      /\ Len(job.storeOps) = 1
                      /\ job.storeOps[1].op = "del" /\ job.storeOps[1].key = key
                /\ (job.pc = "finished" /\ ~cfg.resetStatsAfterCompletion) =>
                      job.storeOps = <<>>
                /\ (job.pc = "finished" /\ cfg.resetStatsAfterCompletion) =>
                      statsStore[key] = EmptyHash

\* C5 witness: a cancelled job has completed on a worker without reset, its
\* tracking key still holding the counters it held before.
C5_Witness ==
    \E j \in JobIds :
        /\ jobs[j].cancelRead = "true"
        /\ jobs[j].pc = "finished"
        /\ cfg.start = "server" /\ ~cfg.resetStatsAfterCompletion
        /\ statsStore[ResolvedTrackingKey(jobs[j].data)] # EmptyHash

\* C5 as originally stated: a cancelled job completes and nothing done for
\* it, the completed-event handling included, changes the stats hash.
C5_Original ==
    \A j \in JobIds :
        jobs[j].cancelRead = "true" =>
            /\ Completed(jobs[j])
            /\ jobs[j].rejected = NoError
            /\ ChangingOps(jobs[j]) = {}

\* C6: cancellation is observed only at the processor's read.  A job is
\* skipped only if the flag was "true" when its read was served; a job whose
\* read returned anything else is not interrupted by the flag becoming
\* "true" later: send is called once with all its recipients, and when the
\* job is tracked and send resolved with its results, exactly those results
\* are written to the stats.
C6_CancellationOnlyAtRead ==
    \A j \in JobIds :
        LET job == jobs[j]
            key == ResolvedTrackingKey(job.data)
        IN  /\ (Completed(job) /\ job.sendCalls = <<>>) => job.flagAtRead = "true"
            /\ (/\ job.data.campaignId # None
                /\ PastCancelCheck(job)
                /\ job.cancelRead # "true"
                /\ cancelFlags[job.data.campaignId] = "true") =>
                  /\ Sendable(job) => job.sendCalls = <<job.data.userIds.items>>
                  /\ (/\ Sendable(job) /\ TrackOn(job.data)
                      /\ job.sendReturn.kind = "return"
                      /\ job.sendReturn.resp.kind = "array"
                      /\ job.pc # "sending") =>
                        job.trackCalls = << <<key, job.sendReturn.resp>> >>
                  /\ (/\ Sendable(job) /\ TrackOn(job.data)
                      /\ job.sendReturn.kind = "return"
                      /\ job.sendReturn.resp.kind = "array"
                      /\ Completed(job)) =>
                        SelectSeq(job.storeOps, LAMBDA op : op.op = "hincrby") =
                            IncrOps(key, PipelineFields(job.sendReturn.resp))

\* C6 witness: the flag is "true" now, but was not when the job read it; the
\* job has sent to both recipients and its two results are in the stats.
C6_Witness ==
    \E j \in JobIds :
        /\ jobs[j].data.campaignId # None
        /\ cancelFlags[jobs[j].data.campaignId] = "true"
        /\ jobs[j].flagAtRead # "true" /\ jobs[j].cancelRead \in FlagValues
        /\ jobs[j].pc = "finished"
        /\ jobs[j].sendCalls = << <<"u1", "u2">> >>
        /\ Cardinality(HincrbyOps(jobs[j])) = 2

\* The counter the catch block records for a thrown value
ErrorCounter(err) ==
    "error:" \o (IF err.message \in {None, ""} THEN "Unknown processing error"
                 ELSE err.message)

C9_StatsOnlyForTrackedJobs ==
    \A j \in JobIds :
        LET job == jobs[j]
            key == ResolvedTrackingKey(job.data)
        IN  /\ job.data.trackResponses # "true" =>
                  /\ job.trackCalls = <<>>
                  /\ HincrbyOps(job) = {}
                  /\ job.pc \notin {"trackResult", "trackError"}
            /\ (/\ job.data.trackResponses = "true"
                /\ job.sendReturn.kind = "return"
                /\ job.sendReturn.resp.kind = "array") =>
                  /\ job.trackCalls = << <<key, job.sendReturn.resp>> >>
                  /\ job.pc # "trackResult" =>
                        /\ Completed(job)
                        /\ SelectSeq(job.storeOps, LAMBDA op : op.op = "hincrby") =
                              IncrOps(key, PipelineFields(job.sendReturn.resp))

\* C9 witness: an untracked job whose send threw has failed, with the stats
\* its worker started with still in place.
C9_Witness ==
    \E j \in JobIds :
        /\ jobs[j].data.trackResponses = None
        /\ jobs[j].sendReturn.kind = "throw"
        /\ jobs[j].pc = "failed"
        /\ jobs[j].storeOps = <<>>
        /\ \A k \in TrackingKeys : statsStore[k] \in PriorHashes

\* ========================================================================
\* Claims about trackNotificationResponse (checked under SpecTracker)
\* ========================================================================
CountOf(h, f) == IF f \in DOMAIN h THEN h[f] ELSE 0

RECURSIVE TotalOver(_, _)
TotalOver(h, fs) ==
    IF fs = {} THEN 0
    ELSE LET f == CHOOSE x \in fs : TRUE
         IN  h[f] + TotalOver(h, fs \ {f})

\* Sum of all counters of a hash
Total(h) == TotalOver(h, DOMAIN h)

\* Increments applied to counter f of the tracking key by the call
Delta(f) == CountOf(statsStore[trKey], f) - CountOf(trBefore, f)

\* The counter an item of a response sequence is to be counted under
ClaimedCounter(item) ==
    IF item.status = "success" THEN "success"
    ELSE IF item.error \in {None, ""} THEN "error:UNKNOWN_ERROR"
    ELSE "error:" \o item.error

\* C10: after trackNotificationResponse on a response sequence S, the
\* increments applied to the tracking key sum to Len(S), each item adding
\* one to `success` when its status is success and otherwise to
\* error:<error> (error:UNKNOWN_ERROR when its error field is empty); a
\* non-sequence response of unrecognized shape adds exactly one increment,
\* to error:invalid_response_format; an empty or null response adds none;
\* no other key is touched.
C10_TrackerCountsEveryItem ==
    trPc = "done" =>
        LET S == trResponse.items
            after == statsStore[trKey]
        IN  /\ \A k \in TrackingKeys \ {trKey} : statsStore[k] = trBefore
            /\ \A f \in DOMAIN trBefore : f \in DOMAIN after /\ after[f] >= trBefore[f]
            /\ trResponse.kind = "array" =>
                  /\ Total(after) - Total(trBefore) = Len(S)
                  /\ \A f \in DOMAIN after \cup { ClaimedCounter(S[k]) : k \in 1..Len(S) } :
                        Delta(f) = Cardinality({ k \in 1..Len(S) : ClaimedCounter(S[k]) = f })
            /\ (trResponse.kind \in {"object", "string"} /\ Truthy(trResponse)
                    /\ trResponse.success # "false") =>
                  /\ Total(after) - Total(trBefore) = 1
                  /\ Delta("error:invalid_response_format") = 1
            /\ (\/ trResponse.kind \in {"null", "undefined"}
                \/ trResponse.kind = "string" /\ trResponse.val = ""
                \/ trResponse.kind = "array" /\ S = <<>>) =>
                  after = trBefore

\* C10 witness: a sequence of three items (a success, an error with a key,
\* an error with an empty error field) has been tracked onto a key that
\* already held counters.
C10_Witness ==
    /\ trPc = "done"
    /\ trResponse.kind = "array" /\ Len(trResponse.items) = 3
    /\ trBefore # EmptyHash
    /\ Delta("success") = 1
    /\ Delta("error:400:Bad_Request") = 1
    /\ Delta("error:UNKNOWN_ERROR") = 1

\* ========================================================================
\* Claims about store failures (checked under SpecStoreFaults)
\* ========================================================================
FailedOps(job) ==
    { k \in 1..Len(job.storeOps) :
        job.storeOps[k].op \in {"execError", "hgetallError", "delError"} }

\* C11: a store failure inside trackNotificationResponse,
\* getNotificationStats or resetNotificationStats never escapes: the call
\* resolves, a failed read hands an empty map to onComplete, and a job whose
\* send resolved is never failed: the processor rejects only with an error
\* it caught from validation, the registry or send, never with a store error.
C11_TrackerNeverThrows ==
    \A j \in JobIds :
        LET job == jobs[j]
        IN  /\ job.sendReturn.kind = "return" =>
                  /\ job.rejected = NoError /\ job.caught = NoError
                  /\ job.pc \in {"trackResult", "returned", "onComplete",
                                 "resetting", "finished"}
            /\ job.rejected # NoError =>
                  /\ job.pc = "failed"
                  /\ job.rejected = job.caught
                  /\ job.rejected \in
                        {InvalidUserIdsError(j), RegistryError(job.data.channel),
                         job.sendReturn.err}
            /\ \A k \in FailedOps(job) :
                  /\ job.storeOps[k].op = "execError" =>
                        job.pc \notin {"trackResult", "trackError"}
                  /\ (job.storeOps[k].op = "hgetallError" /\ k = Len(job.storeOps)) =>
                        job.statsSeen = EmptyHash /\ job.pc \in {"onComplete", "resetting", "finished"}
                  /\ job.storeOps[k].op = "delError" => job.pc = "finished"

\* C11 witness: a job whose send resolved has finished although its
\* tracking, its stats read and its reset all failed.
C11_Witness ==
    \E j \in JobIds :
        /\ jobs[j].sendReturn.kind = "return"
        /\ jobs[j].pc = "finished"
        /\ jobs[j].rejected = NoError
        /\ { jobs[j].storeOps[k].op : k \in FailedOps(jobs[j]) } =
                {"execError", "hgetallError", "delError"}

\* ========================================================================
\* Claims about dispatchNotifications (checked under SpecDispatch)
\* ========================================================================
NonEmptyPages == { k \in 1..Len(fetchLog) : fetchLog[k].count > 0 }

\* C12: the first dbQuery is issued at offset 0 with limit batchSize; after
\* a non-empty page the next query starts at the previous offset plus the
\* number of records that page returned; every query asks for batchSize
\* records; each non-empty page is handed to exactly one handler invocation,
\* in fetch order.
C12_OffsetsAdvanceByReturned ==
    /\ fetchLog # <<>> => fetchLog[1].offset = 0
    /\ \A k \in 1..Len(fetchLog) : fetchLog[k].limit = BatchSize
    /\ \A k \in 1..(Len(fetchLog) - 1) :
          /\ fetchLog[k].count > 0
          /\ fetchLog[k + 1].offset = fetchLog[k].offset + fetchLog[k].count
    /\ Len(handlerLog) = Cardinality(NonEmptyPages)
    /\ Len(handlers) = Len(handlerLog)
    /\ \A k \in 1..Len(handlerLog) :
          handlerLog[k] = Page(fetchLog[k].offset, fetchLog[k].count)

\* C12 witness: a page shorter than the limit was followed by a query that
\* returned the next record.
C12_Witness ==
    \E k \in 1..(Len(fetchLog) - 1) :
        /\ fetchLog[k].count < fetchLog[k].limit
        /\ fetchLog[k + 1].count > 0
        /\ fetchLog[k + 1].offset = fetchLog[k].offset + fetchLog[k].count
        /\ Len(handlerLog) >= k + 1

\* The loop ended because dbQuery returned an empty page
EndedByEmptyPage ==
    /\ fetchLog # <<>>
    /\ fetchLog[Len(fetchLog)].retry.result = "return"
    /\ fetchLog[Len(fetchLog)].count = 0

RECURSIVE RecordsReturned(_)
RecordsReturned(k) ==
    IF k = 0 THEN 0 ELSE fetchLog[k].count + RecordsReturned(k - 1)

\* Handler invocations that started an enqueue operation
EnqueueOps == { b \in 1..Len(handlers) : handlers[b].state # "skipped" }

CeilDiv(a, b) == (a + b - 1) \div b

\* C13 (as amended): when dbQuery has returned N records in total and then
\* an empty page, one enqueue operation has been attempted for each
\* non-empty page; that is at least ceil(N / batchSize), and exactly
\* ceil(N / batchSize) when every page but the last was full.
C13_OneEnqueuePerPage ==
    EndedByEmptyPage =>
        LET n == RecordsReturned(Len(fetchLog))
        IN  /\ Cardinality(EnqueueOps) = Cardinality(NonEmptyPages)
            /\ Cardinality(EnqueueOps) >= CeilDiv(n, BatchSize)
            /\ (\A k \in 1..(Len(fetchLog) - 2) : fetchLog[k].count = BatchSize) =>
                  Cardinality(EnqueueOps) = CeilDiv(n, BatchSize)

\* C13 witness: three full pages of one record, each with its enqueue
\* operation, then the empty page.
C13_Witness ==
    /\ EndedByEmptyPage
    /\ BatchSize = 1
    /\ RecordsReturned(Len(fetchLog)) = 3
    /\ Cardinality(EnqueueOps) = 3

\* C13 as originally stated: the number of enqueue operations is always
\* ceil(N / batchSize).
C13_Original ==
    EndedByEmptyPage =>
        Cardinality(EnqueueOps) = CeilDiv(RecordsReturned(Len(fetchLog)), BatchSize)

\* C14: if dbQuery, or the enqueue of some page, still fails when its
\* retries are exhausted, dispatch rejects, with the error of such a failure;
\* it resolves only when every query returned and every handler it started
\* was fulfilled.
C14_PermanentFailureRejects ==
    /\ \A k \in 1..Len(fetchLog) :
          fetchLog[k].retry.result # "return" =>
              /\ ppc = "done"
              /\ dispatchResult = Settled("rejected", "DatabaseQuery", k)
              /\ fetchLog[k].retry.result = "throw"
    /\ ppc = "done" =>
          /\ dispatchResult.kind \in {"resolved", "rejected"}
          /\ dispatchResult.kind = "resolved" =>
                /\ \A k \in 1..Len(fetchLog) : fetchLog[k].retry.result = "return"
                /\ \A b \in 1..Len(handlers) : Fulfilled(b)
          /\ (\E b \in 1..Len(handlers) : handlers[b].state = "rejected") =>
                dispatchResult.kind = "rejected"
          /\ dispatchResult.op = "EnqueueJobBatch" =>
                /\ handlers[dispatchResult.page].state = "rejected"
                /\ handlers[dispatchResult.page].retry.result = "throw"

\* C14 witness: dispatch has rejected with the enqueue error of a page of a
\* full concurrent set, after the in-loop wait failed.
C14_Witness ==
    /\ ppc = "done"
    /\ dispatchResult.kind = "rejected"
    /\ dispatchResult.op = "EnqueueJobBatch"
    /\ Len(activeBatches) = MaxConcurrentBatches

JobsOfBatch(b) == { k \in 1..Len(queue) : queue[k].batch = b }

\* C15: when the enqueue of a page fails N times, N smaller than the number
\* of allowed attempts (enqueueRetries + 1), and then succeeds, the handler
\* resolves after N + 1 attempts and exactly one job, carrying that page, is
\* in the queue.
C15_EnqueueRetryPersistsOnce ==
    \A b \in 1..Len(handlers) :
        LET h == handlers[b]
        IN  (/\ h.state \in {"resolved", "rejected"}
             /\ h.fails # AlwaysFails
             /\ h.fails < EnqueueMaxRetries + 1) =>
                /\ h.state = "resolved"
                /\ Cardinality(JobsOfBatch(b)) = 1
                /\ \A k \in JobsOfBatch(b) : queue[k].userIds = handlerLog[b]
                /\ Len(SelectSeq(h.retry.trace, LAMBDA e : e.ev = "attempt")) =
                        h.fails + 1

\* C15 witness: an enqueue that failed as often as the default three
\* retries allow has succeeded at the last attempt and left one job.
C15_Witness ==
    \E b \in 1..Len(handlers) :
        /\ handlers[b].state = "resolved"
        /\ enqueueRetriesOpt = {}
        /\ handlers[b].fails = DefaultEnqueueRetries
        /\ Cardinality(JobsOfBatch(b)) = 1

\* ========================================================================
\* Claims about retryWithBackoff (checked under SpecRetry)
\* ========================================================================
\* C16: the operation is attempted at most maxRetries + 1 times; the call
\* stops at the first success and returns; calls and delays alternate, the
\* delay before retry k (k >= 1) being baseDelay * 2^(k-1); when the last
\* allowed attempt fails its error is thrown with no delay after it.
C16_RetryBackoffSchedule ==
    rtPc = "done" =>
        LET t == rtResult.trace
            n == Len(SelectSeq(t, LAMBDA e : e.ev = "attempt"))
            mr == rtInput.maxRetries
            f == rtInput.fails
        IN  /\ n <= (IF mr >= 0 THEN mr + 1 ELSE 0)
            /\ \A k \in 1..Len(t) :
                  IF k % 2 = 1
                  THEN /\ t[k].ev = "attempt"
                       /\ t[k].ok => k = Len(t)
                  ELSE /\ t[k].ev = "delay"
                       /\ t[k].ms = rtInput.baseDelay * 2^((k \div 2) - 1)
            /\ t # <<>> => t[Len(t)].ev = "attempt"
            /\ rtResult.result = "return" <=> (t # <<>> /\ t[Len(t)].ok)
            /\ rtResult.result = "return" => n = f + 1
            /\ rtResult.result = "throw" =>
                  /\ n = mr + 1
                  /\ rtResult.err = n - 1
            /\ rtResult.result = "throwFinal" => (mr < 0 /\ t = <<>>)
            /\ (f # AlwaysFails /\ f <= mr) => rtResult.result = "return"

\* C16 witness: a call with the default five retries gave up after six
\* failed attempts, the last delay being sixteen times the base delay.
C16_Witness ==
    /\ rtPc = "done"
    /\ rtInput.maxRetries = DefaultMaxRetries
    /\ rtResult.result = "throw"
    /\ Len(rtResult.trace) = 11
    /\ rtResult.trace[10].ms = 16 * rtInput.baseDelay

\* ========================================================================
\* Claims about TokenBucketRateLimiter (checked under SpecBucket)
\* ========================================================================
\* C17 as stated: over any interval of length T >= 1 s (T in ms below) the
\* number of acquire() calls that return is at most rate * T + 1.
C17_Original ==
    \A a, b \in 1..Len(tbAcquired) :
        a <= b =>
            LET span == tbAcquired[b] - tbAcquired[a]
                T == IF span > 1000 THEN span ELSE 1000
            IN  (b - a + 1) * 1000 <= tbRate * T + 1000

\* C18: the bucket starts full with capacity equal to the rate; tokens stay
\* between 0 and the capacity whatever refills and acquire() calls occur,
\* several of them pending together; every acquire() that returns has taken
\* exactly one token from what the refill left, which was at least one; and
\* when the clock has not moved forward since the last refill, a refill
\* changes neither tokens nor lastRefillTimestamp.
C18_TokensWithinCapacity ==
    /\ tbTokens = Capacity /\ Capacity = tbRate * 1000
    /\ [](0 <= tbTokens /\ tbTokens <= Capacity)
    /\ [][ /\ Len(tbAcquired') <= Len(tbAcquired) + 1
           /\ Len(tbAcquired') = Len(tbAcquired) + 1 =>
                 /\ Refilled.tokens >= 1000
                 /\ tbTokens' = Refilled.tokens - 1000
           /\ (/\ Len(tbAcquired') = Len(tbAcquired)
               /\ mono' = mono /\ wallBack' = wallBack) =>
                 tbTokens' = Refilled.tokens
           /\ DateNow <= tbLast =>
                 /\ tbLast' = tbLast
                 /\ tbTokens' \in {tbTokens, tbTokens - 1000}
         ]_vars

\* C18 witness: at rate 5, five calls returned at once, two more waited
\* together, and one of them returned when the sixth token was refilled,
\* leaving the bucket empty with the other still waiting.
C18_Witness ==
    /\ tbRate = 5
    /\ Len(tbAcquired) = 6
    /\ tbAcquired[5] = 0 /\ tbAcquired[6] = 200
    /\ tbPending = 1
    /\ tbTokens = 0

C20_Original ==
    (clPc = "done" /\ \A k \in DOMAIN closeLog : closeLog[k] # "error") =>
        /\ clActive = 0
        /\ \E w, q \in DOMAIN closeLog :
              /\ closeLog[w] = "worker.close" /\ closeLog[q] = "queue.close"
              /\ w < q
              /\ \A k \in DOMAIN closeLog :
                    closeLog[k] = "job finished" => k < w
        /\ (redisInstance.status = "end")
              <=> (clInput.redisConnection.kind = "options")

\* ========================================================================
\* Claims about the store handle of dispatchNotifications (checked under
\* SpecDispatchExit)
\* ========================================================================
\* C21 as stated: whenever dispatch has returned or thrown, a handle it
\* created from connection parameters is not left in a connected state
\* without quit() having been called on it, and a live handle of the caller
\* has not been closed.
C21_Original ==
    clPc = "done" =>
        /\ (/\ redisInstance.createdBy = "dispatchNotifications"
            /\ redisInstance.status \in {"ready", "connecting"})
              => \E k \in DOMAIN closeLog : closeLog[k] \in {"redis.quit", "error"}
        /\ redisInstance.createdBy = "caller" =>
              /\ redisInstance.status # "end"
              /\ \A k \in DOMAIN closeLog :
                    closeLog[k] \notin {"redis.quit", "error"}

\* ========================================================================
\* Claims about the "drained" handler (checked under SpecDrain)
\* ========================================================================
\* C22: every run of the handler started by a "drained" event reads the job
\* counts at most ten times; it calls onDrained once, at the first read that
\* shows active = waiting = delayed = 0, all reads before it having shown a
\* job, and it does not call onDrained when a read fails or when all ten
\* reads show a job.
C22_DrainedPolling ==
    \A h \in DOMAIN drains :
        LET d == drains[h]
        IN  /\ d.polls <= MaxChecks
            /\ d.checkCount <= d.polls
            /\ d.called =
                  (IF /\ drOnDrained
                      /\ d.pc \in {"calling", "done"}
                      /\ d.settled # "countError"
                      /\ d.polls = d.checkCount + 1
                   THEN 1 ELSE 0)
            /\ d.called = 1 =>
                  d.seen = [active |-> 0, waiting |-> 0, delayed |-> 0]
            /\ d.settled = "countError" => d.called = 0
            /\ (d.pc = "done" /\ d.checkCount = MaxChecks) =>
                  d.called = 0 /\ d.polls = MaxChecks

\* C22 witness: one run called onDrained at its third read after two reads
\* that showed a job, and another run gave up after ten such reads without
\* calling it.
C22_Witness ==
    /\ drOnDrained
    /\ Len(drains) = 2
    /\ drains[1].pc = "done" /\ drains[1].polls = 3
    /\ drains[1].checkCount = 2 /\ drains[1].called = 1
    /\ drains[2].pc = "done" /\ drains[2].polls = MaxChecks
    /\ drains[2].checkCount = MaxChecks /\ drains[2].called = 0

\* ========================================================================
\* Claims about the completed handler and the onComplete wrapper (checked
\* under Spec)
\* ========================================================================
\* The key C23 names: the job's tracking key, else the worker's, else
\* notifications:stats
C23_Key(j) ==
    IF jobs[j].data.trackingKey # None THEN jobs[j].data.trackingKey
    ELSE IF cfg.trackingKey # None THEN cfg.trackingKey
    ELSE "notifications:stats"

C23_Dels(j) ==
    {k \in DOMAIN jobs[j].storeOps : jobs[j].storeOps[k].op = "del"}

\* C23: when a job has completed, the hash at its resolved tracking key is
\* what onComplete receives; the worker deletes a key only when
\* resetStatsAfterCompletion is set, only that key, once, and only after
\* the callback has returned or thrown; with the option set the key is
\* deleted by the time the handler is through, and without it no key is
\* ever deleted.
C23_StatsReadThenReset ==
    /\ [](\A j \in DOMAIN jobs :
            /\ \A k \in C23_Dels(j) :
                  /\ cfg.resetStatsAfterCompletion
                  /\ jobs[j].storeOps[k].key = C23_Key(j)
                  /\ jobs[j].callback \in {"returned", "threw"}
            /\ Cardinality(C23_Dels(j)) <= 1
            /\ (jobs[j].pc = "finished" /\ jobs[j].callback # "none") =>
                  (cfg.resetStatsAfterCompletion <=> C23_Dels(j) # {})
            /\ jobs[j].pc = "resetting" => jobs[j].callback # "none")
    /\ [][\A j \in DOMAIN jobs :
            /\ (jobs[j].pc = "returned" /\ jobs'[j].pc = "onComplete") =>
                  jobs'[j].statsSeen = statsStore[C23_Key(j)]
            /\ (jobs[j].callback = "none" /\ jobs'[j].callback # "none") =>
                  /\ jobs[j].pc = "onComplete"
                  /\ C23_Dels(j) = {}
                  /\ statsStore' = statsStore
            /\ statsStore'[C23_Key(j)] # statsStore[C23_Key(j)] =>
                  \/ jobs[j].pc \in {"trackResult", "trackError"}
                  \/ jobs[j].pc = "resetting" /\ jobs[j].callback # "none"
         ]_vars

\* C23 witness: a job carrying tracking key tk1, on a worker whose own key
\* is worker:stats and which resets stats, has completed; its callback was
\* handed a non-empty hash and threw, and tk1 was deleted afterwards.
C23_Witness ==
    \E j \in DOMAIN jobs :
        /\ cfg = Config("server", TRUE, "worker:stats")
        /\ jobs[j].data.trackingKey = "tk1"
        /\ jobs[j].pc = "finished"
        /\ jobs[j].callback = "threw"
        /\ jobs[j].statsSeen # EmptyHash
        /\ \E k \in C23_Dels(j) : jobs[j].storeOps[k].key = "tk1"
        /\ statsStore["tk1"] = EmptyHash

\* ========================================================================
\* Claims about the user callbacks (checked under SpecCallbacks)
\* ========================================================================
\* C24: whatever onStart, onComplete and onDrained do, no listener's promise
\* rejects; a job whose send returned is not failed, whether its callbacks
\* threw or not; a run of the drained handler whose callback threw ends as
\* any other; and a waiting job can still be claimed once the processor is
\* through with the jobs before it.
C24_CallbackErrorsContained ==
    /\ unhandled = FALSE
    /\ \A j \in DOMAIN jobs :
          /\ jobs[j].sendReturn.kind = "return" =>
                jobs[j].pc # "failed" /\ jobs[j].rejected = NoError
          /\ jobs[j].callback = "threw" =>
                jobs[j].pc \in {"resetting", "finished"}
          /\ (/\ jobs[j].pc = "waiting"
              /\ \A h \in 1..(j - 1) :
                    jobs[h].pc \in {"returned", "failed", "onComplete",
                                    "resetting", "finished"})
                => ENABLED ClaimJob(j)
    /\ \A h \in DOMAIN drains :
          drains[h].settled = "caught" =>
              drains[h].pc = "done" /\ drains[h].called = 1

\* C24 witness: onStart and onComplete of the first job threw and so did
\* onDrained; the first job finished all the same, and the second job was
\* processed and finished after its own callbacks threw too.
C24_Witness ==
    /\ Len(drains) = 1 /\ drains[1].settled = "caught"
    /\ \A j \in DOMAIN jobs :
          /\ jobs[j].onStart = "threw"
          /\ jobs[j].callback = "threw"
          /\ jobs[j].pc = "finished"
          /\ jobs[j].rejected = NoError

\* ========================================================================
\* Claims about NotifierRegistry (checked under SpecRegistry)
\* ========================================================================
\* The notifier most recently registered under name and not unregistered or
\* cleared since, going back from call k of the log; 0 when there is none
RECURSIVE LastRegistered(_, _, _)
LastRegistered(log, name, k) ==
    IF k = 0 THEN 0
    ELSE IF log[k].op = "clear" THEN 0
    ELSE IF log[k].name = name
         THEN (IF log[k].op = "register" THEN log[k].notifier ELSE 0)
    ELSE LastRegistered(log, name, k - 1)

\* C25: after any sequence of register, unregister and clear calls, get of
\* a name returns the notifier registered last under it since its last
\* unregister or clear, and throws when there is none; the registry holds
\* at most one entry per name; and unregister returns normally whether the
\* name is present or not.
C25_RegistryReturnsLastRegistered ==
    /\ \A name \in ChannelNames :
          LET last == LastRegistered(nrLog, name, Len(nrLog))
              got == RegistryGet(nrEntries, name)
          IN  /\ last # 0 => got.kind = "return" /\ got.notifier = last
              /\ last = 0 => got.kind = "throw"
              /\ Cardinality({k \in DOMAIN nrEntries :
                                 nrEntries[k].name = name}) <= 1
              /\ (nrLast.op = "get" /\ nrLast.name = name) => nrLast = got
    /\ nrLast.op = "unregister" => nrLast.kind = "return"

\* C25 witness: email was registered with notifier 1, then again with
\* notifier 2, sms was unregistered without ever being registered, and get
\* of email has just returned notifier 2 from a registry of one entry.
C25_Witness ==
    /\ Len(nrLog) = 3
    /\ nrLog[1] = Called("register", "email", "return", 1)
    /\ nrLog[2] = Called("register", "email", "return", 2)
    /\ nrLog[3] = Called("unregister", "sms", "return", 0)
    /\ nrLast = Called("get", "email", "return", 2)
    /\ Len(nrEntries) = 1

C27_Unusable(r) ==
    \/ r.kind = "undefined"
    \/ r.kind = "string" /\ r.val = ""
    \/ r.kind = "number" /\ r.val = "0"

\* C27 as stated: every index whose recipient is missing, empty or not a
\* string ends as "Invalid recipient data" with no task run for it.
C27_Original ==
    bpc = "done" =>
        \A idx \in 1..N :
            (recipients[idx].kind # "string" \/ recipients[idx].val = "") =>
                /\ finalResults[idx].error = "Invalid recipient data"
                /\ sendLog[idx] = NotRun

\* C27: an index whose recipient is falsy (missing, empty string, 0) gets
\* "Invalid recipient data" with recipient invalid_recipient_at_index_<i>,
\* i counted from 0; an index with a usable recipient and no meta gets
\* "Missing meta for recipient" with the recipient as a string; for neither
\* is a task scheduled or sendSingle run, at any time; every other index,
\* a recipient that is a non-zero number included, is scheduled and sent.
C27_ValidationSkips ==
    /\ \A idx \in 1..N :
          (C27_Unusable(recipients[idx]) \/ meta[idx] = None) =>
              taskState[idx] = "none" /\ sendLog[idx] = NotRun
    /\ bpc = "done" =>
          \A idx \in 1..N :
              IF C27_Unusable(recipients[idx])
              THEN finalResults[idx] =
                      Result("error",
                             "invalid_recipient_at_index_" \o ToString(idx - 1),
                             "Invalid recipient data", None)
              ELSE IF meta[idx] = None
              THEN finalResults[idx] =
                      Result("error", recipients[idx].val,
                             "Missing meta for recipient", None)
              ELSE /\ taskState[idx] = "fulfilled"
                   /\ sendLog[idx] # NotRun
                   /\ finalResults[idx].recipient = recipients[idx].val
                   /\ finalResults[idx].error \notin
                         {"Invalid recipient data", "Missing meta for recipient"}

\* C27 witness: of three recipients the first is the empty string, the
\* second has no meta and the third is the number 7; the call has returned
\* with the two skips and a result of the send to "7".
C27_Witness ==
    /\ bpc = "done" /\ N = 3
    /\ recipients[1] = Rcpt("string", "") /\ meta[1] # None
    /\ recipients[2] = Rcpt("string", "a") /\ meta[2] = None
    /\ recipients[3] = Rcpt("number", "7")
    /\ finalResults[1].recipient = "invalid_recipient_at_index_0"
    /\ finalResults[2].error = "Missing meta for recipient"
    /\ finalResults[3].status = "success" /\ finalResults[3].recipient = "7"
    /\ skippedCount = 2

\* C28 as stated: when process() finalizes, every task it submitted has
\* settled (fulfilled or rejected by the limiter), and in the returned
\* array a slot holds PROCESSING_ERROR_OR_SKIPPED only for a task that
\* produced no Result, never for one that was still to run.
C28_Original ==
    /\ bpc = "finalize" => \A idx \in 1..N : taskState[idx] # "pending"
    /\ bpc = "done" =>
          \A idx \in 1..N :
              finalResults[idx].error = "PROCESSING_ERROR_OR_SKIPPED" =>
                  taskState[idx] = "rejected" /\ sendLog[idx] = NotRun

\* ========================================================================
\* Concurrency of the batch handlers of one dispatch call
\* ========================================================================
\* The handlers that have been started and have not settled
RunningHandlers == { b \in 1..Len(handlers) : handlers[b].state = "pending" }

\* C29: at no time are more than 3 batch handlers of one dispatch call
\* running, and a fourth page is handed to a handler only after the three
\* handlers before it have settled.
C29_AtMostThreeHandlers ==
    /\ Cardinality(RunningHandlers) <= 3
    /\ \A b \in 1..Len(handlers) :
          b > 3 => \A a \in 1..3 : handlers[a].state # "pending"

\* C29 witness: three handlers are running, dispatch waits for them while
\* the database holds further records.
C29_Witness ==
    /\ Cardinality(RunningHandlers) = 3
    /\ ppc = "awaitSet"
    /\ dbTotal > offset + handlerLog[3].count

\* C30 as stated: when dispatch has surfaced the error of a failed batch
\* handler to its caller, every handler it started has settled: none is
\* still running.
C30_Original ==
    (ppc = "done" /\ dispatchResult.kind = "rejected"
                  /\ dispatchResult.op = "EnqueueJobBatch")
        => RunningHandlers = {}

\* ========================================================================
\* Retry budgets of one dispatch call (checked under SpecDispatch)
\* ========================================================================
\* Number of calls of the operation in a retry trace
C31_Calls(r) == Len(SelectSeq(r.trace, LAMBDA e : e.ev = "attempt"))

\* The k-th delay of a retry trace is base * 2^(k-1)
C31_Doubling(r, base) ==
    LET d == SelectSeq(r.trace, LAMBDA e : e.ev = "delay")
    IN  \A k \in 1..Len(d) : d[k].ms = base * 2^(k - 1)

\* options.enqueueRetries ?? 3, read off the option itself
C31_Retries ==
    IF enqueueRetriesOpt = {} THEN 3 ELSE CHOOSE n \in enqueueRetriesOpt : TRUE

\* C31 as stated: for one page db_query is invoked at most 5 times.
C31_Original ==
    \A k \in 1..Len(fetchLog) : C31_Calls(fetchLog[k].retry) <= 5

\* C31: for one page db_query is invoked at most 6 times (one call and up
\* to 5 retries), with delays 500, 1000, 2000, 4000, 8000 ms between them,
\* and its failure propagates after exactly 6 failed calls; the enqueue of
\* one page is called at most enqueue_retries + 1 times (default 3 + 1),
\* with delays 200 ms doubling, and fails after exactly that many calls.
C31_RetryBudgets ==
    /\ \A k \in 1..Len(fetchLog) :
          LET r == fetchLog[k].retry
          IN  /\ C31_Calls(r) <= 6
              /\ C31_Doubling(r, 500)
              /\ r.result # "return" => r.result = "throw" /\ C31_Calls(r) = 6
    /\ \A b \in 1..Len(handlers) :
          LET h == handlers[b]
          IN  h.state \in {"resolved", "rejected"} =>
                 /\ C31_Calls(h.retry) <= C31_Retries + 1
                 /\ C31_Doubling(h.retry, 200)
                 /\ h.state = "rejected" <=> h.retry.result = "throw"
                 /\ h.state = "rejected" => C31_Calls(h.retry) = C31_Retries + 1
                 /\ (h.fails # AlwaysFails /\ h.fails <= C31_Retries) =>
                        h.state = "resolved" /\ C31_Calls(h.retry) = h.fails + 1

\* C31 witness: with enqueue_retries = 1 the enqueue of the first page was
\* given up after 2 calls, and the query for the next page after 6 calls,
\* the last of them 8000 ms after the one before.
C31_Witness ==
    /\ enqueueRetriesOpt = {1}
    /\ Len(handlers) = 1 /\ handlers[1].state = "rejected"
    /\ C31_Calls(handlers[1].retry) = 2
    /\ Len(fetchLog) = 2
    /\ C31_Calls(fetchLog[2].retry) = 6
    /\ fetchLog[2].retry.trace[10].ms = 8000
    /\ dispatchResult.kind = "rejected" /\ dispatchResult.op = "DatabaseQuery"

\* ========================================================================
\* The job payload built by the batch handler (checked under SpecPayload)
\* ========================================================================
\* C32: every job enqueued by dispatch has as many meta entries as user
\* ids, at least one of each; user id k and meta k come from record k of
\* the page; a record whose meta failed has the empty map in its own slot,
\* the other slots stay where they are, and the page is still enqueued.
C32_PayloadAligned ==
    /\ \A j \in 1..Len(plQueue) :
          LET job == plQueue[j]
          IN  /\ Len(job.userIds) = Len(job.meta)
              /\ Len(job.userIds) = Len(plRecords)
              /\ Len(job.userIds) >= 1
              /\ \A k \in 1..Len(plRecords) :
                    /\ job.userIds[k] = "user-" \o ToString(plRecords[k])
                    /\ IF plRecords[k] \in plThrows
                       THEN job.meta[k] = EmptyMap
                       ELSE job.meta[k].to = job.userIds[k]
    /\ plPc = "rejected" => plPayload # <<>>
    /\ (plPc = "done" /\ plRecords # <<>>) => Len(plQueue) = 1

\* C32 witness: of a page of three records the meta of the second failed;
\* the job is enqueued with the empty map in slot 2 and the meta of the
\* third record in slot 3.
C32_Witness ==
    /\ Len(plQueue) = 1
    /\ plRecords = <<1, 2, 3>> /\ plThrows = {2}
    /\ plQueue[1].userIds = <<"user-1", "user-2", "user-3">>
    /\ plQueue[1].meta[2] = EmptyMap
    /\ plQueue[1].meta[3].to = "user-3"

\* ========================================================================
\* Further claims about the job processor (checked under Spec)
\* ========================================================================
\* C33: a job whose read of the cancellation flag failed is processed as
\* not cancelled, whatever the flag held: userIds is validated, the adapter
\* is looked up and, if both pass, adapter.send is called once; the job
\* fails only with the validation, lookup or adapter error, never with the
\* read error.
C33_ReadErrorMeansNotCancelled ==
    \A j \in JobIds :
        LET job == jobs[j]
        IN  job.cancelRead = "readError" =>
               /\ job.pc # "waiting" /\ job.pc # "cancelGet"
               /\ IF UserIdsInvalid(job.data.userIds)
                  THEN /\ job.caught = InvalidUserIdsError(job.id)
                       /\ job.registryCalls = 0 /\ job.sendCalls = <<>>
                  ELSE IF job.data.channel \notin registry
                  THEN /\ job.caught = RegistryError(job.data.channel)
                       /\ job.registryCalls = 1 /\ job.sendCalls = <<>>
                  ELSE /\ job.registryCalls = 1
                       /\ job.sendCalls = <<job.data.userIds.items>>
               /\ job.rejected \in
                     {NoError, InvalidUserIdsError(job.id),
                      RegistryError(job.data.channel)}
                     \cup { r.err : r \in AdapterThrows }

\* C33 witness: the flag held "true" when the read failed, and the job was
\* sent and has completed.
C33_Witness ==
    \E j \in JobIds :
        /\ jobs[j].cancelRead = "readError"
        /\ jobs[j].flagAtRead = "true"
        /\ jobs[j].sendCalls # <<>>
        /\ jobs[j].sendReturn.kind = "return"
        /\ jobs[j].pc = "finished"

\* ========================================================================
\* Push-SDK initialization (checked under SpecFirebase)
\* ========================================================================
\* Constructions that invoked admin.initializeApp
C34_InitCalls == { k \in 1..Len(fbLog) : fbLog[k].calledInit }

\* C34 as stated: over any sequence of constructions initializeApp is
\* invoked at most once.
C34_Original == Cardinality(C34_InitCalls) <= 1

\* C34: over any sequence of constructions initializeApp is invoked only
\* while the SDK holds no app and succeeds at most once; a construction
\* that finds the SDK initialized, by an adapter or by other code, attaches
\* without invoking it; a construction with invalid credentials, or one
\* whose initializeApp fails, fails and leaves the process uninitialized,
\* and a later construction with valid credentials invokes initializeApp.
C34_InitIdempotent ==
    /\ Cardinality({ k \in 1..Len(fbLog) : fbLog[k].outcome = "initialized" }) <= 1
    /\ fbApps <= 1
    /\ fbInitialized => fbApps = 1
    /\ \A k \in 1..Len(fbLog) :
          LET c == fbLog[k]
          IN  /\ c.calledInit => c.appsBefore = 0 /\ ~c.flagBefore
              /\ c.appsBefore > 0 =>
                    c.outcome \in {"attached", "attachedExternal"}
              /\ c.appsBefore = 0 =>
                    /\ ~c.flagBefore
                    /\ IF c.cred \in {"object", "path"}
                       THEN c.calledInit
                       ELSE c.outcome = "credentialError"
              /\ (c.outcome \in {"credentialError", "initError"}
                    /\ k = Len(fbLog)) => ~fbInitialized

\* C34 witness: a construction with invalid credentials failed, the next
\* one initialized the SDK, and a third attached to its app.
C34_Witness ==
    /\ Len(fbLog) >= 3
    /\ fbLog[1].outcome = "credentialError"
    /\ fbLog[2].outcome = "initialized"
    /\ fbLog[3].outcome = "attached"

\* ========================================================================
\* Failed attempts of a tracked job (checked under SpecAttempts)
\* ========================================================================
\* The counters a job has incremented that are not "success"
C35_ErrorOps(job) ==
    SelectSeq(job.storeOps, LAMBDA o : o.op = "hincrby" /\ o.field # "success")

C36_Original ==
    \A j \in JobIds :
        jobs[j].pc \in {"onComplete", "resetting", "finished"} =>
            \A k \in 1..Len(jobs[j].storeOps) :
                jobs[j].storeOps[k].op = "hincrby" =>
                    /\ jobs[j].storeOps[k].field \in DOMAIN jobs[j].statsSeen
                    /\ jobs[j].statsSeen[jobs[j].storeOps[k].field] >= 1

\* ========================================================================
\* Records and jobs of one dispatch call (checked under SpecDispatch)
\* ========================================================================
\* The records of a page: database positions from+1 .. from+count
C37_RecordsOf(page) == (page.from + 1)..(page.from + page.count)

\* Every record some db_query call returned
C37_Returned ==
    UNION { (fetchLog[k].offset + 1)..(fetchLog[k].offset + fetchLog[k].count) :
              k \in 1..Len(fetchLog) }

\* C37: when dispatch has completed without error, every record returned
\* by db_query is in exactly one persisted job, no job holds a record that
\* was not returned, and the job of page k carries the records of page k as
\* they were fetched.
C37_EveryRecordOnce ==
    dispatchResult.kind = "resolved" =>
        /\ \A r \in C37_Returned :
              Cardinality({ k \in 1..Len(queue) :
                              r \in C37_RecordsOf(queue[k].userIds) }) = 1
        /\ \A k \in 1..Len(queue) :
              /\ C37_RecordsOf(queue[k].userIds) \subseteq C37_Returned
              /\ queue[k].userIds = handlerLog[queue[k].batch]
        /\ Len(queue) = Len(handlerLog)
        /\ \A b \in 1..Len(handlerLog) :
              \E k \in 1..Len(fetchLog) :
                  /\ handlerLog[b].from = fetchLog[k].offset
                  /\ handlerLog[b].count = fetchLog[k].count

\* C37 witness: a dispatch over three records in two pages has completed;
\* the enqueue of the first page succeeded at its second attempt.
C37_Witness ==
    /\ dispatchResult.kind = "resolved"
    /\ dbTotal = 3 /\ C37_Returned = 1..3
    /\ Len(handlerLog) = 2 /\ Len(queue) = 2
    /\ handlers[1].fails = 1

C38_SetOf(b) == (b - 1) \div 3

C40_EmptyPageEndsLoop ==
    /\ \A k \in 1..Len(fetchLog) :
          k < Len(fetchLog) =>
              fetchLog[k].count > 0 /\ fetchLog[k].retry.result = "return"
    /\ Len(handlerLog) = Len(SelectSeq(fetchLog, LAMBDA f : f.count > 0))
    /\ Len(handlers) = Len(handlerLog)
    /\ \A b \in 1..Len(handlerLog) : handlerLog[b].count > 0
    /\ ppc \in {"final", "done"} => fetchLog # <<>>

\* C40: when every db_query and every enqueue call settles, dispatch
\* eventually returns, resolved or rejected; db_query is never invoked
\* again after it returned an empty page, and no handler is invoked for an
\* empty page.
C40_Terminates ==
    /\ <>(ppc = "done" /\ dispatchResult.kind \in {"resolved", "rejected"})
    /\ [][(ppc = "done" \/ (fetchLog # <<>> /\ fetchLog[Len(fetchLog)].count = 0))
            => fetchLog' = fetchLog /\ handlerLog' = handlerLog]_vars
    /\ []C40_EmptyPageEndsLoop

\* C40 witness: dispatch returned after two non-empty pages and the empty
\* page that followed them, with one handler per non-empty page.
C40_Witness ==
    /\ ppc = "done" /\ dispatchResult.kind = "resolved"
    /\ Len(fetchLog) = 3 /\ fetchLog[3].count = 0
    /\ fetchLog[3].retry.result = "return"
    /\ Len(handlerLog) = 2

====
